---- MODULE Spec2Model ----
(***************************************************************************)
(* Inventory tracker: the item/transaction store of App, the add-item form *)
(* (AddItemModal), the item detail form (ItemDetailModal) with its serial  *)
(* helpers, and the persistence bridge (fetchFromCloud / saveToCloud).     *)
(*                                                                         *)
(* Strings are sequences of one-character strings, so that toUpperCase,    *)
(* trim, parseInt, padStart and the two regular expressions are computed   *)
(* character by character as the JavaScript does.                          *)
(***************************************************************************)
EXTENDS Integers, Sequences, FiniteSets, TLC

(***************************************************************************)
(* Characters and the JavaScript string primitives the code calls.         *)
(***************************************************************************)
DigitChars == <<"0", "1", "2", "3", "4", "5", "6", "7", "8", "9">>

UpperChars == <<"A", "B", "C", "N", "S", "T", "X">>

LowerChars == <<"a", "b", "c", "n", "s", "t", "x">>

IsDigit(c) == \E i \in 1..Len(DigitChars) : DigitChars[i] = c

DigitVal(c) == (CHOOSE i \in 1..Len(DigitChars) : DigitChars[i] = c) - 1

IsLetter(c) ==
  \/ \E i \in 1..Len(UpperChars) : UpperChars[i] = c
  \/ \E i \in 1..Len(LowerChars) : LowerChars[i] = c

\* \s of the regular expressions and the white space trim() removes
IsSpace(c) == c = " "

AllDigits(s) == \A i \in 1..Len(s) : IsDigit(s[i])

AllLetters(s) == \A i \in 1..Len(s) : IsLetter(s[i])

AllSpaces(s) == \A i \in 1..Len(s) : IsSpace(s[i])

Slice(s, from, to) == [i \in 1..(to - from + 1) |-> s[from + i - 1]]

toUpperChar(c) ==
  IF \E i \in 1..Len(LowerChars) : LowerChars[i] = c
  THEN UpperChars[CHOOSE i \in 1..Len(LowerChars) : LowerChars[i] = c]
  ELSE c

toUpperCase(s) == [i \in 1..Len(s) |-> toUpperChar(s[i])]

trim(s) ==
  IF AllSpaces(s) THEN <<>>
  ELSE LET first == CHOOSE i \in 1..Len(s) :
                      ~IsSpace(s[i]) /\ \A j \in 1..(i - 1) : IsSpace(s[j])
           last == CHOOSE i \in 1..Len(s) :
                      ~IsSpace(s[i]) /\ \A j \in (i + 1)..Len(s) : IsSpace(s[j])
       IN Slice(s, first, last)

includes(s, c) == \E i \in 1..Len(s) : s[i] = c

\* Array.prototype.includes on a list of strings
listIncludes(list, s) == \E i \in 1..Len(list) : list[i] = s

RECURSIVE digitsValue(_)
digitsValue(s) ==
  IF s = <<>> THEN 0
  ELSE 10 * digitsValue(SubSeq(s, 1, Len(s) - 1)) + DigitVal(s[Len(s)])

\* parseInt(s, 10): leading white space, an optional sign, then the longest
\* run of digits; NaN (isNaN) when no digit follows
parseInt(s) ==
  LET lead == IF AllSpaces(s) THEN Len(s)
              ELSE (CHOOSE i \in 1..Len(s) :
                      ~IsSpace(s[i]) /\ \A j \in 1..(i - 1) : IsSpace(s[j])) - 1
      t == SubSeq(s, lead + 1, Len(s))
      signed == t # <<>> /\ t[1] \in {"-", "+"}
      u == IF signed THEN Tail(t) ELSE t
      n == IF AllDigits(u) THEN Len(u)
           ELSE (CHOOSE i \in 1..Len(u) :
                   ~IsDigit(u[i]) /\ \A j \in 1..(i - 1) : IsDigit(u[j])) - 1
  IN IF n = 0 THEN [isNaN |-> TRUE, value |-> 0]
     ELSE IF signed /\ t[1] = "-"
     THEN [isNaN |-> FALSE, value |-> 0 - digitsValue(SubSeq(u, 1, n))]
     ELSE [isNaN |-> FALSE, value |-> digitsValue(SubSeq(u, 1, n))]

\* parseInt(s, 10) || 0
parseIntOrZero(s) == IF parseInt(s).isNaN THEN 0 ELSE parseInt(s).value

\* Number.prototype.toString of a non-negative integer
RECURSIVE toString(_)
toString(n) ==
  IF n < 10 THEN <<DigitChars[n + 1]>>
  ELSE toString(n \div 10) \o <<DigitChars[(n % 10) + 1]>>

RECURSIVE padStart(_, _, _)
padStart(s, len, c) == IF Len(s) >= len THEN s ELSE padStart(<<c>> \o s, len, c)

(***************************************************************************)
(* The serial helpers of ItemDetailModal.                                  *)
(***************************************************************************)
\* s.match(/^([a-zA-Z]+)(\d+)$/): the letters, then the digits up to the end
serialMatch(s) ==
  LET n == IF AllLetters(s) THEN Len(s)
           ELSE (CHOOSE i \in 1..Len(s) :
                   ~IsLetter(s[i]) /\ \A j \in 1..(i - 1) : IsLetter(s[j])) - 1
  IN IF n >= 1 /\ n < Len(s) /\ AllDigits(SubSeq(s, n + 1, Len(s)))
     THEN [matched |-> TRUE, prefix |-> SubSeq(s, 1, n),
           digits |-> SubSeq(s, n + 1, Len(s))]
     ELSE [matched |-> FALSE, prefix |-> <<>>, digits |-> <<>>]

SeedSerial == <<"S", "N", "0", "0", "0", "0", "1">>

DefaultPrefix == <<"S", "N">>

MinPad == 5

Max2(a, b) == IF a >= b THEN a ELSE b

\* the forEach of suggestNextSerial from element k on, with the running
\* maxNum and currentPrefix
RECURSIVE suggestScan(_, _, _, _)
suggestScan(usedSerials, k, maxNum, currentPrefix) ==
  IF k > Len(usedSerials) THEN [maxNum |-> maxNum, currentPrefix |-> currentPrefix]
  ELSE LET match == serialMatch(toUpperCase(usedSerials[k]))
       IN IF ~match.matched
          THEN suggestScan(usedSerials, k + 1, maxNum, currentPrefix)
          ELSE LET num == parseInt(match.digits).value
               IN suggestScan(usedSerials, k + 1,
                              IF num > maxNum THEN num ELSE maxNum, match.prefix)

\* a suggestNextSerial that does not pad the number
suggestNextSerialUnpadded(usedSerials) ==
  IF Len(usedSerials) = 0 THEN SeedSerial
  ELSE LET scan == suggestScan(usedSerials, 1, 0, DefaultPrefix)
       IN scan.currentPrefix \o toString(scan.maxNum + 1)

\* a suggestNextSerial that returns the greatest number, not the one after it
suggestNextSerialGreatest(usedSerials) ==
  IF Len(usedSerials) = 0 THEN SeedSerial
  ELSE LET scan == suggestScan(usedSerials, 1, 0, DefaultPrefix)
           nextNum == scan.maxNum
           padLength == Max2(MinPad, Len(toString(nextNum)))
       IN scan.currentPrefix \o padStart(toString(nextNum), padLength, "0")

suggestNextSerial(usedSerials) ==
  IF Len(usedSerials) = 0 THEN SeedSerial
  ELSE LET scan == suggestScan(usedSerials, 1, 0, DefaultPrefix)
           nextNum == scan.maxNum + 1
           padLength == Max2(MinPad, Len(toString(nextNum)))
       IN scan.currentPrefix \o padStart(toString(nextNum), padLength, "0")

\* The ways of matching /^(.+?)(\d+)\s*~\s*(.+?)?(\d+)$/ against s: group 1 is
\* s[1..i], group 2 the next d characters, then w1 spaces, the tilde, w2
\* spaces, k characters of group 3 (k = 0: the optional group takes no part)
\* and group 4 up to the end. The alphabet holds no line terminator, so the
\* dot matches every character.
rangeCandidates(s) ==
  LET n == Len(s)
      g3(i, d, w1, w2) ==
        { [i |-> i, d |-> d, w1 |-> w1, w2 |-> w2, k |-> k] :
            k \in { k \in 0..n :
                      /\ i + d + w1 + 1 + w2 + k + 1 <= n
                      /\ AllDigits(Slice(s, i + d + w1 + 1 + w2 + k + 1, n)) } }
      sp2(i, d, w1) ==
        UNION { g3(i, d, w1, w2) :
                  w2 \in { w2 \in 0..n :
                             /\ i + d + w1 + 1 + w2 <= n
                             /\ AllSpaces(Slice(s, i + d + w1 + 2, i + d + w1 + 1 + w2)) } }
      sp1(i, d) ==
        UNION { sp2(i, d, w1) :
                  w1 \in { w1 \in 0..n :
                             /\ i + d + w1 + 1 <= n
                             /\ AllSpaces(Slice(s, i + d + 1, i + d + w1))
                             /\ s[i + d + w1 + 1] = "~" } }
      g2(i) ==
        UNION { sp1(i, d) :
                  d \in { d \in 1..n : i + d <= n /\ AllDigits(Slice(s, i + 1, i + d)) } }
  IN UNION { g2(i) : i \in 1..n }

\* The order in which the backtracking matcher tries them: (.+?) lazy, (\d+)
\* greedy, both \s* greedy, the optional group taken before it is skipped,
\* and lazy inside.
rangePreferred(a, b) ==
  \/ a.i < b.i
  \/ a.i = b.i /\ a.d > b.d
  \/ a.i = b.i /\ a.d = b.d /\ a.w1 > b.w1
  \/ a.i = b.i /\ a.d = b.d /\ a.w1 = b.w1 /\ a.w2 > b.w2
  \/ /\ a.i = b.i /\ a.d = b.d /\ a.w1 = b.w1 /\ a.w2 = b.w2
     /\ \/ a.k >= 1 /\ (b.k = 0 \/ a.k <= b.k)
        \/ a.k = 0 /\ b.k = 0

\* input.match(/^(.+?)(\d+)\s*~\s*(.+?)?(\d+)$/): groups 1, 2 and 4
rangeMatch(s) ==
  LET cands == rangeCandidates(s)
  IN IF cands = {}
     THEN [matched |-> FALSE, prefix |-> <<>>, startNumStr |-> <<>>, endNumStr |-> <<>>]
     ELSE LET c == CHOOSE a \in cands : \A b \in cands : rangePreferred(a, b)
          IN [matched |-> TRUE,
              prefix |-> SubSeq(s, 1, c.i),
              startNumStr |-> SubSeq(s, c.i + 1, c.i + c.d),
              endNumStr |-> SubSeq(s, c.i + c.d + c.w1 + 1 + c.w2 + c.k + 1, Len(s))]

RangeLimit == 100

\* results[i..endNum] of the for loop of parseSerialRange
rangeLoop(prefix, padLength, i, endNum) ==
  [k \in 1..(endNum - i + 1) |->
     prefix \o padStart(toString(i + k - 1), padLength, "0")]

\* a parseSerialRange that returns the input as it is, blanks included
expandRangeUntrimmed(input, m, startNum, endNum) ==
  IF ~m.matched THEN [threw |-> FALSE, serials |-> <<input>>]
  ELSE IF startNum.isNaN \/ endNum.isNaN \/ startNum.value > endNum.value
  THEN [threw |-> FALSE, serials |-> <<input>>]
  ELSE IF endNum.value - startNum.value >= RangeLimit
  THEN [threw |-> TRUE, serials |-> <<>>]
  ELSE [threw |-> FALSE,
        serials |-> rangeLoop(m.prefix, Len(m.startNumStr), startNum.value, endNum.value)]

\* parseSerialRange from the match on: threw when it throws, else the list
expandRange(input, m, startNum, endNum) ==
  IF ~m.matched THEN [threw |-> FALSE, serials |-> <<trim(input)>>]
  ELSE IF startNum.isNaN \/ endNum.isNaN \/ startNum.value > endNum.value
  THEN [threw |-> FALSE, serials |-> <<trim(input)>>]
  ELSE IF endNum.value - startNum.value >= RangeLimit
  THEN [threw |-> TRUE, serials |-> <<>>]
  ELSE [threw |-> FALSE,
        serials |-> rangeLoop(m.prefix, Len(m.startNumStr), startNum.value, endNum.value)]

parseMatched(input, m) ==
  expandRange(input, m, parseInt(m.startNumStr), parseInt(m.endNumStr))

parseSerialRange(input) == parseMatched(input, rangeMatch(input))

(***************************************************************************)
(* Bounds of the model.                                                    *)
(***************************************************************************)
\* items the store may hold
MaxItems == 2

\* transactions one item may hold
MaxTrans == 3

\* the latest Date.now() an id may carry
MaxClock == 3

\* Math.floor(Math.random() * 1000) yields 0..999; the model draws 0..RandRange-1
RandRange == 2

\* the requests to /api/inventory that may be under way at once
MaxRequests == 2

\* the same, in the sessions in which the user refreshes
MaxInFlight == 1

(***************************************************************************)
(* State.                                                                  *)
(***************************************************************************)
VARIABLES
  items,          \* App: the store, newest item first
  authRole,       \* App: "none" (null), "admin" or "product_only"
  alertMsg,       \* the dialog the last handler showed, "none" if it showed none
  syncStatus,     \* App: 'idle', 'loading', 'success', 'error' or 'offline'
  dataSource,     \* App: 'cloud' or 'local'
  isInitialLoad,  \* App: isInitialLoad.current
  localStorage,   \* the entry of the browser's localStorage under STORAGE_KEY
  timer,          \* the timeout the auto-save effect holds, with the items it closed over
  kv,             \* the record of the remote store under the handler's KEY
  requests,       \* the requests to /api/inventory that are under way
  arg,            \* a call of a function of the serial allocator: its name and argument
  result,         \* what that call returned, once it has
  backup          \* the backup file the last export has written to the user's disk

\* what no handler of the store touches
bridge == <<syncStatus, dataSource, isInitialLoad, kv, requests>>

\* the call of a function of the serial allocator
probe == <<arg, result>>

vars == <<items, authRole, alertMsg, localStorage, timer, bridge, probe, backup>>

ADMIN_PASSWORD == "0000"

PRODUCT_ONLY_PASSWORD == "1111"

\* handleActionConfirm: authRole === 'admin' ? '5200' : '3281'
ADMIN_CONFIRM_PASSWORD == "5200"

PRODUCT_ONLY_CONFIRM_PASSWORD == "3281"

generateId(prefix, now, rnd) == <<prefix, now, rnd>>

Rands == 0..(RandRange - 1)

\* The Math.random() draws of n generateId calls made in the same millisecond.
\* Ids are only ever compared for equality, so the draws are listed up to a
\* renaming of the values: the first is 0 and each later one repeats an earlier
\* draw or is the next unused value.
Draws(n) ==
  { f \in [1..n -> Rands] :
      \A i \in 1..n : \A v \in 0..(f[i] - 1) : \E j \in 1..(i - 1) : f[j] = v }

\* { ...a, ...b }
spread(a, b) ==
  [k \in (DOMAIN a) \cup (DOMAIN b) |-> IF k \in DOMAIN b THEN b[k] ELSE a[k]]

\* t.serialNumber, the empty string standing for undefined where it is only
\* tested for truthiness or shown
serialNumberOf(t) == IF "serialNumber" \in DOMAIN t THEN t.serialNumber ELSE <<>>

RECURSIVE reduceStock(_, _)
reduceStock(transactions, acc) ==
  IF transactions = <<>> THEN acc
  ELSE reduceStock(Tail(transactions),
                   IF Head(transactions).type = "purchase"
                   THEN acc + Head(transactions).quantity
                   ELSE acc - Head(transactions).quantity)

\* a calculateStock that adds the quantity of a release too
RECURSIVE calculateStockUnsigned(_)
calculateStockUnsigned(item) ==
  IF item.transactions = <<>> THEN 0
  ELSE Head(item.transactions).quantity
         + calculateStockUnsigned([item EXCEPT !.transactions = Tail(@)])

\* App: calculateStock(item), shown in the list view
calculateStock(item) == reduceStock(item.transactions, 0)

\* ItemDetailModal: currentStock, shown in the detail view and checked on release
currentStock(item) ==
  LET RECURSIVE go(_, _)
      go(k, acc) ==
        IF k > Len(item.transactions) THEN acc
        ELSE go(k + 1, IF item.transactions[k].type = "purchase"
                       THEN acc + item.transactions[k].quantity
                       ELSE acc - item.transactions[k].quantity)
  IN go(1, 0)

RECURSIVE flatten(_)
flatten(lists) == IF lists = <<>> THEN <<>> ELSE Head(lists) \o flatten(Tail(lists))

\* Array.from(new Set(list)): the first occurrence of each element, in order
RECURSIVE uniqueInOrder(_)
uniqueInOrder(list) ==
  IF list = <<>> THEN <<>>
  ELSE LET front == uniqueInOrder(SubSeq(list, 1, Len(list) - 1))
           last == list[Len(list)]
       IN IF listIncludes(front, last) THEN front ELSE Append(front, last)

\* App: allUsedSerials of a store
usedSerialsOf(its) ==
  LET serialsOfItem(item) ==
        SelectSeq([k \in 1..Len(item.transactions) |->
                     toUpperCase(serialNumberOf(item.transactions[k]))],
                  LAMBDA s : s # <<>>)
  IN uniqueInOrder(flatten([k \in 1..Len(its) |-> serialsOfItem(its[k])]))

allUsedSerials == usedSerialsOf(items)

\* items.map(i => i.code)
existingCodes == [k \in 1..Len(items) |-> items[k].code]

itemIds == {items[k].id : k \in 1..Len(items)}

\* the timestamps of the ids in the store
timestamps ==
  {items[k].id[2] : k \in 1..Len(items)}
    \cup UNION {{items[k].transactions[j].id[2] : j \in 1..Len(items[k].transactions)} :
                  k \in 1..Len(items)}

\* Date.now() in a handler: handlers run at least a millisecond apart and ids
\* are compared only inside the store, so it is the first instant after every
\* timestamp the store holds
dateNow == IF timestamps = {} THEN 1
       ELSE 1 + CHOOSE m \in timestamps : \A x \in timestamps : x <= m

\* items.find(i => i.id === id), taken only for an id of the store
selectedItem(id) == items[CHOOSE k \in 1..Len(items) :
                            items[k].id = id /\ \A j \in 1..(k - 1) : items[j].id # id]

(***************************************************************************)
(* App: the store operations, each a function of the previous store.       *)
(***************************************************************************)
handleAddItem(prev, itemData, initialQuantity, now, rndItem, rndTrans) ==
  LET seeded == IF initialQuantity > 0
                THEN <<[id |-> generateId("t", now, rndTrans), type |-> "purchase",
                        quantity |-> initialQuantity]>>
                ELSE <<>>
      newItem == spread(itemData,
                        [id |-> generateId("item", now, rndItem), transactions |-> seeded])
  IN <<newItem>> \o prev

handleUpdateItem(prev, itemId, updatedData) ==
  [k \in 1..Len(prev) |->
     IF prev[k].id = itemId THEN spread(prev[k], updatedData) ELSE prev[k]]

\* a handleAddTransaction that puts the new transaction first
handleAddTransactionFirst(prev, itemId, transaction, id) ==
  [k \in 1..Len(prev) |->
     IF prev[k].id = itemId
     THEN [prev[k] EXCEPT !.transactions = <<spread(transaction, [id |-> id])>> \o @]
     ELSE prev[k]]

handleAddTransaction(prev, itemId, transaction, id) ==
  [k \in 1..Len(prev) |->
     IF prev[k].id = itemId
     THEN [prev[k] EXCEPT !.transactions = Append(@, spread(transaction, [id |-> id]))]
     ELSE prev[k]]

handleUpdateTransaction(prev, itemId, transactionId, updatedData) ==
  [k \in 1..Len(prev) |->
     IF prev[k].id = itemId
     THEN [prev[k] EXCEPT !.transactions =
             [j \in 1..Len(@) |->
                IF @[j].id = transactionId THEN spread(@[j], updatedData) ELSE @[j]]]
     ELSE prev[k]]

handleDeleteTransaction(prev, itemId, transactionId) ==
  [k \in 1..Len(prev) |->
     IF prev[k].id = itemId
     THEN [prev[k] EXCEPT !.transactions =
             SelectSeq(@, LAMBDA t : t.id # transactionId)]
     ELSE prev[k]]

handleDeleteItem(prev, itemId) == SelectSeq(prev, LAMBDA i : i.id # itemId)

(***************************************************************************)
(* App: what follows a handler in the same turn of the event loop.         *)
(***************************************************************************)
\* null: what JSON null parses to, and the record of a key the remote store
\* does not hold
Null == [null |-> TRUE]

\* A JSON text is a sequence of symbols: the punctuation, "null", the
\* characters of the strings the user typed and of the numbers, and, as one
\* symbol each, the words the program itself writes (property names, the
\* types, the prefixes of the ids).
Words ==
  {"id", "code", "name", "type", "transactions", "quantity", "serialNumber",
   "items", "exportDate", "version", "lastUpdated", "item", "t", "purchase",
   "release", "part", "product", "iso", "2.0"}

\* the white space between the symbols of an indented text
IsGap(c) == c \in {" ", "\n"}

\* the characters of a string between its quotes: \" and \\ for " and \
RECURSIVE escape(_)
escape(s) ==
  IF s = <<>> THEN <<>>
  ELSE (IF Head(s) \in {"\"", "\\"} THEN <<"\\", Head(s)>> ELSE <<Head(s)>>)
         \o escape(Tail(s))

quote(s) == <<"\"">> \o escape(s) \o <<"\"">>

\* Number.prototype.toString of an integer
numberText(n) == IF n < 0 THEN <<"-">> \o toString(0 - n) ELSE toString(n)

\* the template string of generateId: `${prefix}-${Date.now()}-${random}`
idText(id) == quote(<<id[1], "-">> \o toString(id[2]) \o <<"-">> \o toString(id[3]))

RECURSIVE join(_, _)
join(texts, sep) ==
  IF texts = <<>> THEN <<>>
  ELSE IF Len(texts) = 1 THEN texts[1]
  ELSE texts[1] \o sep \o join(Tail(texts), sep)

\* the line break and indentation JSON.stringify(value, null, gap) inserts
newline(gap, depth) ==
  IF gap = 0 THEN <<>> ELSE <<"\n">> \o [i \in 1..(gap * depth) |-> " "]

member(key, text, gap) ==
  quote(<<key>>) \o (IF gap = 0 THEN <<":">> ELSE <<":", " ">>) \o text

\* an object or an array ("{" and "}", or "[" and "]") of the given parts
enclose(open, parts, close, gap, depth) ==
  IF parts = <<>> THEN <<open, close>>
  ELSE <<open>> \o newline(gap, depth + 1)
         \o join(parts, <<",">> \o newline(gap, depth + 1))
         \o newline(gap, depth) \o <<close>>

stringifyTransaction(t, gap, depth) ==
  enclose("{",
          <<member("id", idText(t.id), gap), member("type", quote(<<t.type>>), gap),
            member("quantity", numberText(t.quantity), gap)>>
            \o (IF "serialNumber" \in DOMAIN t
                THEN <<member("serialNumber", quote(t.serialNumber), gap)>>
                ELSE <<>>),
          "}", gap, depth)

stringifyItem(item, gap, depth) ==
  enclose("{",
          <<member("id", idText(item.id), gap), member("code", quote(item.code), gap),
            member("name", quote(item.name), gap),
            member("type", quote(<<item.type>>), gap),
            member("transactions",
                   enclose("[",
                           [k \in 1..Len(item.transactions) |->
                              stringifyTransaction(item.transactions[k], gap, depth + 2)],
                           "]", gap, depth + 1),
                   gap)>>,
          "}", gap, depth)

stringifyItems(its, gap, depth) ==
  enclose("[", [k \in 1..Len(its) |-> stringifyItem(its[k], gap, depth + 1)], "]",
          gap, depth)

\* JSON.stringify of an array of items
JSON_stringify(value) == stringifyItems(value, 0, 0)

\* what a string of a text stands for in the store: a word, an id, or the
\* characters themselves
idOf(chars, dash) ==
  <<chars[1], digitsValue(SubSeq(chars, 3, dash - 1)),
    digitsValue(SubSeq(chars, dash + 1, Len(chars)))>>

stringValue(chars) ==
  IF Len(chars) = 1 /\ chars[1] \in Words THEN chars[1]
  ELSE IF Len(chars) >= 5 /\ chars[1] \in {"item", "t"} /\ chars[2] = "-"
  THEN idOf(chars, CHOOSE d \in 4..Len(chars) : chars[d] = "-")
  ELSE chars

\* what the parser has read: the value, its kind and, of an object, the kinds
\* of its properties, and the position after it; or that the text is no JSON
Unparsable == [ok |-> FALSE, value |-> Null, kind |-> "none", kinds |-> <<>>, next |-> 0]

Parsed(value, kind, kinds, next) ==
  [ok |-> TRUE, value |-> value, kind |-> kind, kinds |-> kinds, next |-> next]

RECURSIVE skip(_, _)
skip(s, i) == IF i <= Len(s) /\ IsGap(s[i]) THEN skip(s, i + 1) ELSE i

RECURSIVE digitsEnd(_, _)
digitsEnd(s, i) == IF i <= Len(s) /\ IsDigit(s[i]) THEN digitsEnd(s, i + 1) ELSE i

numberFrom(s, i, first, end) ==
  IF end = first THEN Unparsable
  ELSE Parsed(IF first = i THEN digitsValue(SubSeq(s, first, end - 1))
              ELSE 0 - digitsValue(SubSeq(s, first, end - 1)),
              "number", <<>>, end)

parseNumber(s, i, first) == numberFrom(s, i, first, digitsEnd(s, first))

\* the string whose opening quote is before position i
RECURSIVE parseString(_, _, _)
parseString(s, i, chars) ==
  IF i > Len(s) THEN Unparsable
  ELSE IF s[i] = "\"" THEN Parsed(stringValue(chars), "string", <<>>, i + 1)
  ELSE IF s[i] = "\\"
  THEN IF i + 1 > Len(s) THEN Unparsable
       ELSE parseString(s, i + 2, Append(chars, s[i + 1]))
  ELSE parseString(s, i + 1, Append(chars, s[i]))

\* the object of the properties read, a later one of a name replacing an
\* earlier one
objectOf(members, next) ==
  Parsed([key \in {members[j][1] : j \in 1..Len(members)} |->
            members[CHOOSE j \in 1..Len(members) :
                      /\ members[j][1] = key
                      /\ \A l \in (j + 1)..Len(members) : members[l][1] # key][2]],
         "object",
         [key \in {members[j][1] : j \in 1..Len(members)} |->
            members[CHOOSE j \in 1..Len(members) :
                      /\ members[j][1] = key
                      /\ \A l \in (j + 1)..Len(members) : members[l][1] # key][3]],
         next)

\* the symbol at position i, or none past the end of the text
at(s, i) == IF i >= 1 /\ i <= Len(s) THEN s[i] ELSE ""

RECURSIVE parseValue(_, _)
RECURSIVE parseMembers(_, _, _)
RECURSIVE parseElements(_, _, _)

parseValue(s, i) ==
  LET c == at(s, i)
  IN CASE c = "{" -> parseMembers(s, skip(s, i + 1), <<>>)
       [] c = "[" -> parseElements(s, skip(s, i + 1), <<>>)
       [] c = "\"" -> parseString(s, i + 1, <<>>)
       [] c = "null" -> Parsed(Null, "null", <<>>, i + 1)
       [] c = "-" -> parseNumber(s, i, i + 1)
       [] IsDigit(c) -> parseNumber(s, i, i)
       [] OTHER -> Unparsable

\* the properties of an object from position i on, members read so far: a
\* name, a colon and a value, then a comma and the next property or the
\* closing brace
parseMembers(s, i, members) ==
  LET key == parseString(s, i + 1, <<>>)
      colon == skip(s, key.next)
      read == parseValue(s, skip(s, colon + 1))
      end == skip(s, read.next)
      wellFormed == /\ at(s, i) = "\"" /\ key.ok /\ at(s, colon) = ":" /\ read.ok
      more == Append(members, <<key.value, read.value, read.kind>>)
  IN CASE at(s, i) = "}" /\ members = <<>> -> objectOf(members, i + 1)
       [] wellFormed /\ at(s, end) = "," -> parseMembers(s, skip(s, end + 1), more)
       [] wellFormed /\ at(s, end) = "}" -> objectOf(more, end + 1)
       [] OTHER -> Unparsable

\* the elements of an array from position i on, elements read so far
parseElements(s, i, elements) ==
  LET read == parseValue(s, i)
      end == skip(s, read.next)
      more == Append(elements, read.value)
  IN CASE at(s, i) = "]" /\ elements = <<>> -> Parsed(elements, "array", <<>>, i + 1)
       [] read.ok /\ at(s, end) = "," -> parseElements(s, skip(s, end + 1), more)
       [] read.ok /\ at(s, end) = "]" -> Parsed(more, "array", <<>>, end + 1)
       [] OTHER -> Unparsable

\* the whole text is one value
wholeText(s, read) ==
  IF read.ok /\ skip(s, read.next) > Len(s) THEN read ELSE Unparsable

parseText(s) == wholeText(s, parseValue(s, skip(s, 1)))

\* JSON.parse of a text JSON.stringify wrote
JSON_parse(text) == parseText(text).value

\* localStorage.getItem of a key never set
NoEntry == [present |-> FALSE, text |-> JSON_stringify(<<>>)]

setItem(value) == [present |-> TRUE, text |-> JSON_stringify(value)]

\* no timeout is pending
NoTimer == [armed |-> FALSE, data |-> <<>>]

\* an auto-save effect without the test of isInitialLoad.current
autoSaveUnguarded(initialLoad) ==
  /\ localStorage' = setItem(items')
  /\ timer' = [armed |-> TRUE, data |-> items']

\* an auto-save effect that leaves a pending timeout as it is
autoSaveOnce(initialLoad) ==
  IF initialLoad
  THEN UNCHANGED <<localStorage, timer>>
  ELSE /\ localStorage' = setItem(items')
       /\ timer' = IF timer.armed THEN timer ELSE [armed |-> TRUE, data |-> items']

\* the auto-save effect, run because setItems was called: the cleanup of the
\* previous run clears its timeout, then the new run mirrors the items and
\* sets a timeout for them, unless it sees isInitialLoad.current set
autoSave(initialLoad) ==
  IF initialLoad
  THEN UNCHANGED <<localStorage, timer>>
  ELSE /\ localStorage' = setItem(items')
       /\ timer' = [armed |-> TRUE, data |-> items']

\* a handler that returns before it calls setItems: nothing renders again
noChange == UNCHANGED <<items, localStorage, timer>>

(***************************************************************************)
(* What the user may type. Raw values are as typed; the onChange handlers  *)
(* upper-case codes, names and serial numbers before they reach the form.  *)
(***************************************************************************)
CodeInputs == {<<>>, <<"C", "1">>, <<"c", "1">>, <<" ", "C", "1">>, <<"C", "2">>}

NameInputs == {<<>>, <<"n">>}

ItemTypes == {"part", "product"}

InitialQuantityInputs == {<<"0">>, <<"2">>}

\* the quantity the handler finds in the form; the empty one and "0" are read
\* by its own check of the count
QuantityInputs == {<<>>, <<"0">>, <<"1">>, <<"2">>}

SerialInputs ==
  {<<>>, <<"A", "1">>, <<"a", "1">>, <<" ", "A", "1">>, <<"A", "1", "~", "2">>}

EditQuantityInputs == {<<"0">>, <<"3">>}

EditSerialInputs == {<<"A", "1">>, <<"a", "2">>}

PasswordInputs ==
  {ADMIN_PASSWORD, PRODUCT_ONLY_PASSWORD, ADMIN_CONFIRM_PASSWORD,
   PRODUCT_ONLY_CONFIRM_PASSWORD}

TransactionTypes == {"purchase", "release"}

(***************************************************************************)
(* App: login and logout.                                                  *)
(***************************************************************************)
handleLogin(loginPassword) ==
  /\ authRole = "none"
  /\ authRole' = IF loginPassword = ADMIN_PASSWORD THEN "admin"
                 ELSE IF loginPassword = PRODUCT_ONLY_PASSWORD THEN "product_only"
                 ELSE authRole
  /\ alertMsg' = IF loginPassword \in {ADMIN_PASSWORD, PRODUCT_ONLY_PASSWORD}
                 THEN "none" ELSE "wrong_password"
  /\ UNCHANGED <<items, localStorage, timer, bridge, probe, backup>>

handleLogout ==
  /\ authRole # "none"
  /\ authRole' = "none"
  /\ alertMsg' = "none"
  /\ UNCHANGED <<items, localStorage, timer, bridge, probe, backup>>

(***************************************************************************)
(* AddItemModal.                                                           *)
(***************************************************************************)
\* isCodeDuplicate of AddItemModal for the code in the form
isCodeDuplicate(code, codes) ==
  IF trim(code) = <<>> THEN FALSE
  ELSE \E k \in 1..Len(codes) : toUpperCase(codes[k]) = toUpperCase(trim(code))

\* handleSubmit of AddItemModal with the form as the user filled it in, and
\* handleAddItem of App which it calls
handleSubmit(rawCode, rawName, itemType, initialQuantity, rndItem, rndTrans) ==
  LET code == toUpperCase(rawCode)
      name == toUpperCase(rawName)
      quantity == parseIntOrZero(initialQuantity)
  IN /\ authRole # "none"
     /\ IF code = <<>> \/ name = <<>>
        THEN alertMsg' = "required_missing" /\ noChange
        ELSE IF isCodeDuplicate(code, existingCodes)
        THEN alertMsg' = "code_in_use" /\ noChange
        ELSE /\ Len(items) < MaxItems
             /\ dateNow <= MaxClock
             /\ items' = handleAddItem(items, [code |-> code, name |-> name,
                                               type |-> itemType],
                                       quantity, dateNow, rndItem, rndTrans)
             /\ alertMsg' = "none" /\ autoSave(isInitialLoad)
     /\ UNCHANGED <<authRole, bridge, probe, backup>>

\* handleDeleteItemConfirm of App for the item the trash button selected
handleDeleteItemConfirm(itemId, deletePassword) ==
  LET currentPass == IF authRole = "admin" THEN ADMIN_PASSWORD
                     ELSE PRODUCT_ONLY_PASSWORD
  IN /\ authRole # "none"
     /\ itemId \in itemIds
     /\ IF deletePassword # currentPass
        THEN alertMsg' = "wrong_password" /\ noChange
        ELSE items' = handleDeleteItem(items, itemId) /\ alertMsg' = "none" /\ autoSave(isInitialLoad)
     /\ UNCHANGED <<authRole, bridge, probe, backup>>

(***************************************************************************)
(* ItemDetailModal, open on the item with the given id.                    *)
(***************************************************************************)
\* the onAddTransaction calls of the range branch, one per serial
RECURSIVE addEach(_, _, _, _, _, _)
addEach(prev, itemId, transactionType, serials, now, rnds) ==
  IF serials = <<>> THEN prev
  ELSE addEach(handleAddTransaction(prev, itemId,
                                    [type |-> transactionType, quantity |-> 1,
                                     serialNumber |-> Head(serials)],
                                    generateId("t", now, Head(rnds))),
               itemId, transactionType, Tail(serials), now, Tail(rnds))

\* the checks without the one of the stock
verdictWithoutStock(item, transactionType, isRange, threw, targetSerials, count) ==
  IF isRange /\ threw THEN "range_too_large"
  ELSE IF \E k \in 1..Len(targetSerials) :
            targetSerials[k] # <<>> /\ listIncludes(allUsedSerials, targetSerials[k])
  THEN "duplicate_serial"
  ELSE IF count <= 0 THEN "check_quantity"
  ELSE "accepted"

\* the checks of handleAddTransaction of the modal, in their order
verdictOf(item, transactionType, isRange, threw, targetSerials, count) ==
  IF isRange /\ threw THEN "range_too_large"
  ELSE IF \E k \in 1..Len(targetSerials) :
            targetSerials[k] # <<>> /\ listIncludes(allUsedSerials, targetSerials[k])
  THEN "duplicate_serial"
  ELSE IF count <= 0 THEN "check_quantity"
  ELSE IF transactionType = "release" /\ count > currentStock(item) THEN "stock_short"
  ELSE "accepted"

decide(item, transactionType, isRange, threw, targetSerials, count) ==
  [isRange |-> isRange, targetSerials |-> targetSerials, count |-> count,
   verdict |-> verdictOf(item, transactionType, isRange, threw, targetSerials, count)]

targeted(item, transactionType, quantity, isRange, threw, targetSerials) ==
  decide(item, transactionType, isRange, threw, targetSerials,
         IF isRange THEN Len(targetSerials) ELSE parseIntOrZero(quantity))

parsedSubmission(item, transactionType, quantity, serialNumber, isRange, parsed) ==
  targeted(item, transactionType, quantity, isRange, parsed.threw,
           IF isRange THEN parsed.serials ELSE <<trim(toUpperCase(serialNumber))>>)

\* what handleAddTransaction of the modal computes before it changes anything:
\* isRange, targetSerials, count, and the check that stops it ("accepted" if none)
submission(item, transactionType, quantity, serialNumber) ==
  parsedSubmission(item, transactionType, quantity, serialNumber,
                   item.type = "product" /\ includes(serialNumber, "~"),
                   parseSerialRange(toUpperCase(serialNumber)))

\* the rest of the handler: the alert of the failed check, or the
\* onAddTransaction calls
applySubmission(item, transactionType, serialNumber, sub) ==
  IF sub.verdict # "accepted"
  THEN alertMsg' = sub.verdict /\ noChange
  ELSE /\ dateNow <= MaxClock
       /\ IF sub.isRange
          THEN /\ Len(item.transactions) + Len(sub.targetSerials) <= MaxTrans
               /\ \E rnds \in Draws(Len(sub.targetSerials)) :
                    items' = addEach(items, item.id, transactionType,
                                     sub.targetSerials, dateNow, rnds)
               /\ alertMsg' = "range_registered" /\ autoSave(isInitialLoad)
          ELSE /\ Len(item.transactions) < MaxTrans
               /\ \E rnds \in Draws(1) :
                    items' = handleAddTransaction(items, item.id,
                               [type |-> transactionType, quantity |-> sub.count,
                                serialNumber |-> IF item.type = "product"
                                                 THEN toUpperCase(serialNumber)
                                                 ELSE <<>>],
                               generateId("t", dateNow, rnds[1]))
               /\ alertMsg' = "none" /\ autoSave(isInitialLoad)

submitForm(item, transactionType, quantity, serialNumber) ==
  applySubmission(item, transactionType, serialNumber,
                  submission(item, transactionType, quantity, serialNumber))

\* handleAddTransaction of the modal: the form holds transactionType, quantity
\* and serialNumber (upper-cased by its onChange; a part shows no serial field)
handleAddTransactionForm(itemId, transactionType, quantity, rawSerial) ==
  /\ authRole # "none"
  /\ itemId \in itemIds
  /\ submitForm(selectedItem(itemId), transactionType, quantity,
                IF selectedItem(itemId).type = "product"
                THEN toUpperCase(rawSerial) ELSE <<>>)
  /\ UNCHANGED <<authRole, bridge, probe, backup>>

\* isCodeDuplicate of the modal for the code in the edit form
isCodeDuplicateEdit(item, code, codes) ==
  IF code = <<>> \/ code = item.code THEN FALSE
  ELSE \E k \in 1..Len(codes) : toUpperCase(codes[k]) = toUpperCase(code)

requiredPass == IF authRole = "admin" THEN ADMIN_CONFIRM_PASSWORD
                ELSE PRODUCT_ONLY_CONFIRM_PASSWORD

\* handleToggleEdit with the edit form filled in, then handleActionConfirm for
\* the action { type: 'item' }
handleActionConfirmItem(itemId, rawName, rawCode, password) ==
  /\ authRole # "none"
  /\ itemId \in itemIds
  /\ LET item == selectedItem(itemId)
         name == toUpperCase(rawName)
         code == toUpperCase(rawCode)
     IN IF name = <<>> \/ code = <<>>
        THEN alertMsg' = "required_missing" /\ noChange
        ELSE IF isCodeDuplicateEdit(item, code, existingCodes)
        THEN alertMsg' = "code_in_use" /\ noChange
        ELSE IF password # requiredPass
        THEN alertMsg' = "wrong_password" /\ noChange
        ELSE /\ items' = handleUpdateItem(items, item.id, [name |-> name, code |-> code])
             /\ alertMsg' = "none" /\ autoSave(isInitialLoad)
  /\ UNCHANGED <<authRole, bridge, probe, backup>>

\* handleEditTransaction on row k of the history, handleTransEditChange for
\* the fields of edits, handleSaveTransEdit, then handleActionConfirm for the
\* action { type: 'trans_save', targetId }
handleActionConfirmTransSave(itemId, k, edits, password) ==
  /\ authRole # "none"
  /\ itemId \in itemIds
  /\ LET item == selectedItem(itemId)
     IN /\ k \in 1..Len(item.transactions)
        /\ "serialNumber" \in DOMAIN edits => item.type = "product"
        /\ LET t == item.transactions[k]
               processed == [f \in DOMAIN edits |->
                               IF f = "quantity" THEN parseIntOrZero(edits[f])
                               ELSE toUpperCase(edits[f])]
               transEditData == spread(t, processed)
           IN IF password # requiredPass
              THEN alertMsg' = "wrong_password" /\ noChange
              ELSE /\ items' = handleUpdateTransaction(items, item.id, t.id, transEditData)
                   /\ alertMsg' = "none" /\ autoSave(isInitialLoad)
  /\ UNCHANGED <<authRole, bridge, probe, backup>>

\* a history that shows the delete button under either role
handleActionConfirmTransDeleteAnyRole(itemId, k, password) ==
  /\ authRole # "none"
  /\ itemId \in itemIds
  /\ LET item == selectedItem(itemId)
     IN /\ k \in 1..Len(item.transactions)
        /\ IF password # requiredPass
           THEN alertMsg' = "wrong_password" /\ noChange
           ELSE /\ items' = handleDeleteTransaction(items, item.id, item.transactions[k].id)
                /\ alertMsg' = "none" /\ autoSave(isInitialLoad)
  /\ UNCHANGED <<authRole, bridge, probe, backup>>

\* handleDeleteTrans on row k (the button is rendered for the admin only),
\* then handleActionConfirm for the action { type: 'trans_delete', targetId }
handleActionConfirmTransDelete(itemId, k, password) ==
  /\ authRole = "admin"
  /\ itemId \in itemIds
  /\ LET item == selectedItem(itemId)
     IN /\ k \in 1..Len(item.transactions)
        /\ IF password # requiredPass
           THEN alertMsg' = "wrong_password" /\ noChange
           ELSE /\ items' = handleDeleteTransaction(items, item.id, item.transactions[k].id)
                /\ alertMsg' = "none" /\ autoSave(isInitialLoad)
  /\ UNCHANGED <<authRole, bridge, probe, backup>>

\* the sets of fields one edit of a transaction may change
EditChoices ==
  {[quantity |-> q] : q \in EditQuantityInputs}
    \cup {[serialNumber |-> s] : s \in EditSerialInputs}
    \cup {[quantity |-> q, serialNumber |-> s] :
            q \in EditQuantityInputs, s \in EditSerialInputs}

(***************************************************************************)
(* The store: every operation a logged-in user can perform on it.          *)
(***************************************************************************)
\* what a request has for a response: none yet, a rejected fetch
\* ("neterr"), or a status (ok is 200..299) and a body that parses as JSON to
\* value or does not parse
NoResponse ==
  [kind |-> "none", status |-> 0, ok |-> FALSE, parses |-> FALSE, value |-> Null]

\* new Response(body, { status })
Response(status, parses, value) ==
  [kind |-> "http", status |-> status, ok |-> status \in 200..299, parses |-> parses,
   value |-> value]

\* a request without a body
NoBody == [parses |-> FALSE, value |-> Null]

\* the requests of the client: fetchFromCloud sends a GET, saveToCloud a POST
\* with the items it was given; initial marks the fetch of the initial load
GET(initial) ==
  [method |-> "GET", initial |-> initial, data |-> <<>>, body |-> NoBody,
   from |-> "app", stage |-> "sent", response |-> NoResponse]

NoCall == [fn |-> "none", input |-> <<>>, usedSerials |-> <<>>]

NoResult == [returned |-> FALSE, threw |-> FALSE, serials |-> <<>>, serial |-> <<>>]

\* no export was made
NoFile == [present |-> FALSE, text |-> <<>>]

\* the application as mounted, the initial load effect having called
\* fetchFromCloud, on a device whose localStorage holds entry, the remote
\* store holding record
Started(entry, record, call) ==
  /\ items = <<>>
  /\ authRole = "none"
  /\ alertMsg = "none"
  /\ syncStatus = "loading"
  /\ dataSource = "local"
  /\ isInitialLoad = TRUE
  /\ localStorage = entry
  /\ timer = NoTimer
  /\ kv = record
  /\ requests = <<GET(TRUE)>>
  /\ arg = call
  /\ result = NoResult
  /\ backup = NoFile

Mounted(entry, record) == Started(entry, record, NoCall)

\* on a device that never ran the application, the remote store never written
Init == Mounted(NoEntry, Null)

(***************************************************************************)
(* App: fetchFromCloud and saveToCloud, and the handler of /api/inventory. *)
(***************************************************************************)
\* the body saveToCloud sends; lastUpdated is the time of the save, which
\* nothing reads
bodyOf(data) == [items |-> data, lastUpdated |-> "iso"]

POST(data) ==
  [method |-> "POST", initial |-> FALSE, data |-> data,
   body |-> [parses |-> TRUE, value |-> bodyOf(data)],
   from |-> "app", stage |-> "sent", response |-> NoResponse]

\* Array.isArray(data.items) for a parsed body
hasItemsArray(data) == "items" \in DOMAIN data

\* fetchFromCloud up to its first await, called by the refresh button
fetchFromCloud ==
  /\ authRole # "none"
  /\ Len(requests) < MaxRequests
  /\ syncStatus' = "loading"
  /\ requests' = Append(requests, GET(FALSE))
  /\ UNCHANGED <<items, authRole, alertMsg, localStorage, timer, dataSource,
                 isInitialLoad, kv, probe, backup>>

\* the timeout of the auto-save effect expires: saveToCloud(items) up to its await
saveToCloud ==
  /\ timer.armed
  /\ Len(requests) < MaxRequests
  /\ syncStatus' = "loading"
  /\ requests' = Append(requests, POST(timer.data))
  /\ timer' = NoTimer
  /\ UNCHANGED <<items, authRole, alertMsg, localStorage, dataSource,
                 isInitialLoad, kv, probe, backup>>

\* a handler whose GET answers with what kv.get returned, null included
storedOrNull(data) == data

\* data || { items: [], lastUpdated: null }
storedOrDefault(data) == IF data # Null THEN data ELSE [items |-> <<>>, lastUpdated |-> "null"]

\* the handler of /api/inventory on request k; kvWorks is whether the calls of
\* the KV client succeed (if not, the catch answers 500, as it does when
\* req.json() throws)
handler(k, kvWorks) ==
  /\ k \in 1..Len(requests)
  /\ requests[k].stage = "sent"
  /\ LET req == requests[k]
         answer(status, parses, value) ==
           [requests EXCEPT ![k] = [req EXCEPT !.stage = "answered",
                                               !.response = Response(status, parses, value)]]
         serverError == answer(500, TRUE, [error |-> "Internal Server Error"])
     IN IF req.method = "GET"
        THEN /\ requests' = IF kvWorks THEN answer(200, TRUE, storedOrDefault(kv))
                            ELSE serverError
             /\ UNCHANGED kv
        ELSE IF req.method = "POST"
        THEN IF ~req.body.parses
             THEN requests' = serverError /\ UNCHANGED kv
             ELSE IF ~hasItemsArray(req.body.value)
             THEN /\ requests' = answer(400, TRUE, [error |-> "Invalid data format"])
                  /\ UNCHANGED kv
             ELSE IF kvWorks
             THEN /\ kv' = req.body.value
                  /\ requests' = answer(200, TRUE, [success |-> TRUE])
             ELSE requests' = serverError /\ UNCHANGED kv
        ELSE requests' = answer(405, FALSE, Null) /\ UNCHANGED kv
  /\ UNCHANGED <<items, authRole, alertMsg, localStorage, timer, syncStatus,
                 dataSource, isInitialLoad, probe, backup>>

\* what the network can make of a request or of its response: the fetch is
\* rejected, or something on the way answers 200 with a body that is no JSON,
\* or with JSON that has no items
Failures ==
  {[kind |-> "neterr", status |-> 0, ok |-> FALSE, parses |-> FALSE, value |-> Null],
   Response(200, FALSE, Null),
   Response(200, TRUE, [error |-> "none"])}

network(k, failure) ==
  /\ k \in 1..Len(requests)
  /\ requests' = [requests EXCEPT ![k] = [@ EXCEPT !.stage = "answered",
                                                   !.response = failure]]
  /\ requests'[k] # requests[k]
  /\ UNCHANGED <<items, authRole, alertMsg, localStorage, timer, syncStatus,
                 dataSource, isInitialLoad, kv, probe, backup>>

\* a fetch that does not look at response.ok
succeededWhateverStatus(resp) == resp.kind = "http" /\ resp.parses

\* the try block of fetchFromCloud gets past response.json()
succeeded(resp) == resp.kind = "http" /\ resp.ok /\ resp.parses

\* requests without the k-th
without(k) == [j \in 1..(Len(requests) - 1) |-> IF j < k THEN requests[j] ELSE requests[j + 1]]

\* fetchFromCloud from the response on, then the finally of the initial load
\* effect, then the auto-save effect if setItems was called. batched is
\* whether the root batches the updates made outside an event handler: if it
\* does, the effect runs after the finally, else the render inside the
\* setItems call has run it already
fetchDone(k, batched) ==
  /\ k \in 1..Len(requests)
  /\ requests[k].method = "GET"
  /\ requests[k].from = "app"
  /\ requests[k].stage = "answered"
  /\ LET req == requests[k]
         resp == req.response
         seen == IF req.initial THEN ~batched ELSE isInitialLoad
     IN /\ IF succeeded(resp)
           THEN IF hasItemsArray(resp.value)
                THEN /\ items' = resp.value.items
                     /\ dataSource' = "cloud"
                     /\ syncStatus' = "success"
                     /\ IF seen
                        THEN localStorage' = setItem(resp.value.items) /\ UNCHANGED timer
                        ELSE autoSave(FALSE)
                ELSE noChange /\ UNCHANGED <<dataSource, syncStatus>>
           ELSE /\ dataSource' = "local"
                /\ syncStatus' = "offline"
                /\ IF localStorage.present
                   THEN items' = JSON_parse(localStorage.text) /\ autoSave(seen)
                   ELSE noChange
        /\ isInitialLoad' = IF req.initial THEN FALSE ELSE isInitialLoad
  /\ requests' = without(k)
  /\ UNCHANGED <<authRole, alertMsg, kv, probe, backup>>

\* a saveToCloud whose catch only sets the status
saveDoneStatusOnly(k) ==
  /\ k \in 1..Len(requests)
  /\ requests[k].method = "POST"
  /\ requests[k].from = "app"
  /\ requests[k].stage = "answered"
  /\ syncStatus' = IF requests[k].response.kind = "http" /\ requests[k].response.ok
                   THEN "success" ELSE "error"
  /\ dataSource' = IF requests[k].response.kind = "http" /\ requests[k].response.ok
                   THEN "cloud" ELSE dataSource
  /\ requests' = without(k)
  /\ UNCHANGED <<items, authRole, alertMsg, localStorage, timer, isInitialLoad, kv, probe, backup>>

\* saveToCloud from the response on
saveDone(k) ==
  /\ k \in 1..Len(requests)
  /\ requests[k].method = "POST"
  /\ requests[k].from = "app"
  /\ requests[k].stage = "answered"
  /\ LET req == requests[k]
         resp == req.response
     IN IF resp.kind = "http" /\ resp.ok
        THEN /\ syncStatus' = "success"
             /\ dataSource' = "cloud"
             /\ UNCHANGED localStorage
        ELSE /\ syncStatus' = "error"
             /\ localStorage' = setItem(req.data)
             /\ UNCHANGED dataSource
  /\ requests' = without(k)
  /\ UNCHANGED <<items, authRole, alertMsg, timer, isInitialLoad, kv, probe, backup>>

\* the operations on items: add, edit, delete, under either role
ItemsNext ==
  \/ \E pw \in PasswordInputs : handleLogin(pw)
  \/ handleLogout
  \/ \E c \in CodeInputs, n \in NameInputs, ty \in ItemTypes,
        q \in InitialQuantityInputs, r1 \in Draws(1), r2 \in Draws(1) :
       handleSubmit(c, n, ty, q, r1[1], r2[1])
  \/ \E id \in itemIds, pw \in PasswordInputs : handleDeleteItemConfirm(id, pw)
  \/ \E id \in itemIds, n \in NameInputs, c \in CodeInputs, pw \in PasswordInputs :
       handleActionConfirmItem(id, n, c, pw)

SpecItems == Init /\ [][ItemsNext]_vars

\* the ledger of an administrator's session: purchases and releases of
\* varying quantity, serial ranges, edits of the quantity, and deletions
StockCodes == {<<"C", "1">>, <<"C", "2">>}

StockNames == {<<"n">>}

StockSerials == {<<>>, <<"A", "1", "~", "2">>}

StockQuantities == {<<"0">>, <<"1">>, <<"2">>}

StockEdits == {[quantity |-> <<"3">>]}

StockNext ==
  \/ handleLogin(ADMIN_PASSWORD)
  \/ \E ty \in ItemTypes, q \in InitialQuantityInputs, r1 \in Draws(1), r2 \in Draws(1) :
       handleSubmit(<<"C", "1">>, <<"n">>, ty, q, r1[1], r2[1])
  \/ \E id \in itemIds, ty \in TransactionTypes, q \in StockQuantities,
        s \in StockSerials :
       handleAddTransactionForm(id, ty, q, s)
  \/ \E id \in itemIds, k \in 1..MaxTrans, e \in StockEdits :
       handleActionConfirmTransSave(id, k, e, ADMIN_CONFIRM_PASSWORD)
  \/ \E id \in itemIds, k \in 1..MaxTrans :
       handleActionConfirmTransDelete(id, k, ADMIN_CONFIRM_PASSWORD)

SpecStock == Init /\ [][StockNext]_vars

\* the serial numbers of products in an administrator's session: purchases of
\* one unit or of a range, edits of the serial number, and deletions
SerialQuantities == {<<"1">>}

SerialEdits == {[serialNumber |-> s] : s \in EditSerialInputs}

AdminPasswords == {ADMIN_PASSWORD, ADMIN_CONFIRM_PASSWORD}

SerialsNext ==
  \/ \E pw \in AdminPasswords : handleLogin(pw)
  \/ \E c \in StockCodes, n \in StockNames, ty \in ItemTypes,
        r1 \in Draws(1), r2 \in Draws(1) :
       handleSubmit(c, n, ty, <<"0">>, r1[1], r2[1])
  \/ \E id \in itemIds, q \in SerialQuantities, s \in SerialInputs :
       handleAddTransactionForm(id, "purchase", q, s)
  \/ \E id \in itemIds, k \in 1..MaxTrans, e \in SerialEdits, pw \in AdminPasswords :
       handleActionConfirmTransSave(id, k, e, pw)
  \/ \E id \in itemIds, k \in 1..MaxTrans, pw \in AdminPasswords :
       handleActionConfirmTransDelete(id, k, pw)

SpecSerials == Init /\ [][SerialsNext]_vars

\* the quantities of a part in an administrator's session: initial
\* quantities, purchases and releases with what the quantity field can hold,
\* and edits of the quantity of a row of the history
LedgerEdits == {[quantity |-> q] : q \in {<<"0">>, <<"-", "1">>, <<"3">>}}

LedgerNext ==
  \/ handleLogin(ADMIN_PASSWORD)
  \/ \E q \in InitialQuantityInputs, r1 \in Draws(1), r2 \in Draws(1) :
       handleSubmit(<<"C", "1">>, <<"n">>, "part", q, r1[1], r2[1])
  \/ \E id \in itemIds, ty \in TransactionTypes, q \in QuantityInputs :
       handleAddTransactionForm(id, ty, q, <<>>)
  \/ \E id \in itemIds, k \in 1..MaxTrans, e \in LedgerEdits :
       handleActionConfirmTransSave(id, k, e, ADMIN_CONFIRM_PASSWORD)

SpecLedger == Init /\ [][LedgerNext]_vars

(***************************************************************************)
(* The bridge to the remote store: a session in which an administrator     *)
(* adds an item and refreshes, over a network that can fail.                *)
(***************************************************************************)
\* an item an earlier session left behind
earlier(code) ==
  [id |-> generateId("item", 0, 0), code |-> code, name |-> <<"n">>, type |-> "part",
   transactions |-> <<>>]

Entries == {NoEntry, setItem(<<earlier(<<"C", "0">>)>>)}

Records == {Null, bodyOf(<<earlier(<<"C", "9">>)>>)}

InitSync == \E entry \in Entries, record \in Records : Mounted(entry, record)

SyncNext ==
  \/ handleLogin(ADMIN_PASSWORD)
  \/ \E r1 \in Draws(1), r2 \in Draws(1) :
       handleSubmit(<<"C", "1">>, <<"n">>, "part", <<"0">>, r1[1], r2[1])
  \/ Len(requests) < MaxInFlight /\ fetchFromCloud
  \/ Len(requests) < MaxInFlight /\ saveToCloud
  \/ \E k \in 1..MaxRequests, kvWorks \in BOOLEAN : handler(k, kvWorks)
  \/ \E k \in 1..MaxRequests, failure \in Failures : network(k, failure)
  \/ \E k \in 1..MaxRequests, batched \in BOOLEAN : fetchDone(k, batched)
  \/ \E k \in 1..MaxRequests : saveDone(k)

SpecSync == InitSync /\ [][SyncNext]_vars

(***************************************************************************)
(* The auto-save: a session in which an administrator adds and deletes     *)
(* items while the initial load and the pushes are under way, over a       *)
(* network that can fail.                                                  *)
(***************************************************************************)
\* the fetch is rejected
Rejected ==
  [kind |-> "neterr", status |-> 0, ok |-> FALSE, parses |-> FALSE, value |-> Null]

PushNext ==
  \/ handleLogin(ADMIN_PASSWORD)
  \/ \E r1 \in Draws(1), r2 \in Draws(1) :
       handleSubmit(<<"C", "1">>, <<"n">>, "part", <<"0">>, r1[1], r2[1])
  \/ \E id \in itemIds : handleDeleteItemConfirm(id, ADMIN_PASSWORD)
  \/ saveToCloud
  \/ \E k \in 1..MaxRequests, kvWorks \in BOOLEAN : handler(k, kvWorks)
  \/ \E k \in 1..MaxRequests : network(k, Rejected)
  \/ \E k \in 1..MaxRequests, batched \in BOOLEAN : fetchDone(k, batched)
  \/ \E k \in 1..MaxRequests : saveDone(k)

SpecPush == Init /\ [][PushNext]_vars

\* the same session over a network and a remote store that never fail: every
\* request reaches the handler, in any order, and every response arrives
ReliableNext ==
  \/ handleLogin(ADMIN_PASSWORD)
  \/ \E r1 \in Draws(1), r2 \in Draws(1) :
       handleSubmit(<<"C", "1">>, <<"n">>, "part", <<"0">>, r1[1], r2[1])
  \/ \E id \in itemIds : handleDeleteItemConfirm(id, ADMIN_PASSWORD)
  \/ saveToCloud
  \/ \E k \in 1..MaxRequests : handler(k, TRUE)
  \/ \E k \in 1..MaxRequests, batched \in BOOLEAN : fetchDone(k, batched)
  \/ \E k \in 1..MaxRequests : saveDone(k)

SpecReliable == Init /\ [][ReliableNext]_vars

(***************************************************************************)
(* App: the backup file, handleLocalExport and handleLocalImport.          *)
(***************************************************************************)
\* a backup document that has the items under another name
backupTextMisnamed(its) ==
  enclose("{",
          <<member("transactions", stringifyItems(its, 2, 1), 2),
            member("exportDate", quote(<<"iso">>), 2),
            member("version", quote(<<"2.0">>), 2)>>,
          "}", 2, 0)

\* JSON.stringify({ items, exportDate, version: '2.0' }, null, 2)
backupText(its) ==
  enclose("{",
          <<member("items", stringifyItems(its, 2, 1), 2),
            member("exportDate", quote(<<"iso">>), 2),
            member("version", quote(<<"2.0">>), 2)>>,
          "}", 2, 0)

handleLocalExport ==
  /\ authRole # "none"
  /\ backup' = [present |-> TRUE, text |-> backupText(items)]
  /\ alertMsg' = "none"
  /\ UNCHANGED <<items, authRole, localStorage, timer, bridge, probe>>

\* a test that takes any object for the items
importableObject(parsed) ==
  /\ parsed.kind = "object"
  /\ "items" \in DOMAIN parsed.value
  /\ parsed.kinds.items \in {"array", "object"}

\* json.items && Array.isArray(json.items)
importable(parsed) ==
  /\ parsed.kind = "object"
  /\ "items" \in DOMAIN parsed.value
  /\ parsed.kinds.items = "array"

\* reader.onload: JSON.parse throws on a text that is no JSON, json.items on
\* null; confirmed is the answer to confirm()
onload(parsed, confirmed) ==
  IF ~parsed.ok \/ parsed.kind = "null"
  THEN alertMsg' = "read_error" /\ noChange
  ELSE IF ~importable(parsed)
  THEN alertMsg' = "invalid_backup" /\ noChange
  ELSE IF ~confirmed
  THEN alertMsg' = "none" /\ noChange
  ELSE /\ items' = parsed.value.items
       /\ alertMsg' = "restored" /\ autoSave(isInitialLoad)

\* the files the user may choose besides the last export: one that is no
\* JSON, null, an object without items, one whose items are an object, one
\* with no items, and the backup of another store, whose one item is a part
Files ==
  {<<"x">>, <<"null">>, <<"{", "}">>,
   <<"{", "\"", "items", "\"", ":", "{", "}", "}">>,
   <<"{", "\"", "items", "\"", ":", "[", "]", "}">>,
   backupText(<<earlier(<<"C", "1">>)>>)}

\* JSON.parse of each of those files
FileReads == [file \in Files |-> parseText(file)]

\* JSON.parse of what reader.onload receives
readFile(file) == IF file \in Files THEN FileReads[file] ELSE parseText(file)

\* handleLocalImport for the text FileReader read, and reader.onload
fileLoaded(read, confirmed) ==
  /\ authRole # "none"
  /\ onload(read, confirmed)
  /\ UNCHANGED <<authRole, bridge, probe, backup>>

handleLocalImport(file, confirmed) == fileLoaded(readFile(file), confirmed)

(***************************************************************************)
(* The handler of /api/inventory under the requests any client may send.   *)
(***************************************************************************)
Methods == {"GET", "POST", "PUT", "DELETE"}

\* the bodies of those requests: no JSON, null, an object without items, and
\* objects with an items array
Bodies ==
  {NoBody, [parses |-> TRUE, value |-> Null],
   [parses |-> TRUE, value |-> [error |-> "none"]],
   [parses |-> TRUE, value |-> [items |-> <<>>]],
   [parses |-> TRUE, value |-> bodyOf(<<earlier(<<"C", "9">>)>>)]}

\* a client other than the application sends a request
request(method, body) ==
  /\ Len(requests) < MaxRequests
  /\ requests' = Append(requests,
                        [method |-> method, initial |-> FALSE, data |-> <<>>,
                         body |-> body, from |-> "other", stage |-> "sent",
                         response |-> NoResponse])
  /\ UNCHANGED <<items, authRole, alertMsg, localStorage, timer, syncStatus,
                 dataSource, isInitialLoad, kv, probe, backup>>

\* that client receives the response
received(k) ==
  /\ k \in 1..Len(requests)
  /\ requests[k].from = "other"
  /\ requests[k].stage = "answered"
  /\ requests' = without(k)
  /\ UNCHANGED <<items, authRole, alertMsg, localStorage, timer, syncStatus,
                 dataSource, isInitialLoad, kv, probe, backup>>

HandlerNext ==
  \/ \E method \in Methods, body \in Bodies : request(method, body)
  \/ \E k \in 1..MaxRequests, kvWorks \in BOOLEAN : handler(k, kvWorks)
  \/ \E k \in 1..MaxRequests : received(k)
  \/ \E k \in 1..MaxRequests, batched \in BOOLEAN : fetchDone(k, batched)

SpecHandler == Init /\ [][HandlerNext]_vars

(***************************************************************************)
(* Backups: a session in which an administrator fills the store, exports   *)
(* it and imports files.                                                   *)
(***************************************************************************)
\* the files the user may choose: those, and the last export
ImportFiles == Files \cup (IF backup.present THEN {backup.text} ELSE {})

\* a name of a letter, a quote and a backslash
BackupName == <<"n", "\"", "\\">>

\* a serial number with a blank
BackupSerial == <<" ", "A", "1">>

BackupNext ==
  \/ handleLogin(ADMIN_PASSWORD)
  \/ \E q \in InitialQuantityInputs, r1 \in Draws(1), r2 \in Draws(1) :
       handleSubmit(<<"C", "1">>, BackupName, "product", q, r1[1], r2[1])
  \/ \E id \in itemIds :
       handleAddTransactionForm(id, "purchase", <<"1">>, BackupSerial)
  \/ \E id \in itemIds :
       handleActionConfirmTransSave(id, 1, [quantity |-> <<"-", "1">>],
                                    ADMIN_CONFIRM_PASSWORD)
  \/ handleLocalExport
  \/ \E file \in ImportFiles, confirmed \in BOOLEAN : handleLocalImport(file, confirmed)

SpecBackup == Init /\ [][BackupNext]_vars

(***************************************************************************)
(* The serial allocator: parseSerialRange and suggestNextSerial, each      *)
(* called on what the form can hold.                                       *)
(***************************************************************************)
RangePrefixes == {<<"A">>, <<"C", "T">>}

RangeStarts == {<<"1">>, <<"5">>, <<"0", "1">>, <<"0", "0", "0", "1">>}

RangeSeparators == {<<"~">>, <<" ", "~", " ">>}

RangeEnds ==
  {<<"2">>, <<"9">>, <<"1", "2">>, <<"9", "9">>, <<"1", "0", "0">>, <<"1", "5", "0">>,
   <<"0", "0", "1", "0">>, <<"0", "1", "0", "0">>, <<"1", "1", "0", "1">>}

\* what the serial field holds that is no range of the kind above
OtherSerials ==
  {<<>>, <<"A", "1">>, <<" ", "A", "1", " ">>, <<"~">>, <<"A", "~", "1">>,
   <<"1", "~", "5">>, <<"1", "0", "~", "1", "5">>, <<"A", "1", "~", "X", "9">>,
   <<"A", "1", "~", "A", "3">>, <<"A", "1", "~">>}

SerialFields ==
  {p \o s \o m \o e : p \in RangePrefixes, s \in RangeStarts,
                      m \in RangeSeparators, e \in RangeEnds}
    \cup OtherSerials

\* the serials the store may hold, upper-cased as allUsedSerials has them
UsedPool ==
  {<<"S", "N", "0", "0", "0", "0", "7">>, <<"A", "B", "0", "0", "0", "1", "2">>,
   <<"A", "9", "9", "9", "9", "9">>, <<"X", "1">>, <<"7">>, <<"A", "B">>,
   <<" ", "A", "1">>}

MaxUsed == 2

UsedLists == UNION {[1..n -> UsedPool] : n \in 0..MaxUsed}

Calls ==
  {[fn |-> "parseSerialRange", input |-> toUpperCase(s), usedSerials |-> <<>>] :
     s \in SerialFields}
    \cup {[fn |-> "suggestNextSerial", input |-> <<>>, usedSerials |-> l] :
            l \in UsedLists}

InitAllocator == \E call \in Calls : Started(NoEntry, Null, call)

\* the range effect and handleAddTransaction of the modal call
\* parseSerialRange(serialNumber.toUpperCase())
callParseSerialRange ==
  /\ arg.fn = "parseSerialRange"
  /\ ~result.returned
  /\ LET returned == parseSerialRange(arg.input)
     IN result' = [returned |-> TRUE, threw |-> returned.threw,
                   serials |-> returned.serials, serial |-> <<>>]
  /\ UNCHANGED <<items, authRole, alertMsg, localStorage, timer, bridge, arg, backup>>

\* the suggestion effect and the suggestion button call
\* suggestNextSerial(allUsedSerials)
callSuggestNextSerial ==
  /\ arg.fn = "suggestNextSerial"
  /\ ~result.returned
  /\ result' = [returned |-> TRUE, threw |-> FALSE, serials |-> <<>>,
                 serial |-> suggestNextSerial(arg.usedSerials)]
  /\ UNCHANGED <<items, authRole, alertMsg, localStorage, timer, bridge, arg, backup>>

AllocatorNext == callParseSerialRange \/ callSuggestNextSerial

SpecAllocator == InitAllocator /\ [][AllocatorNext]_vars

(***************************************************************************)
(* The properties of the ledger.                                           *)
(***************************************************************************)
\* the quantities of the transactions of one type, added up
RECURSIVE sumOfType(_, _)
sumOfType(transactions, type) ==
  IF transactions = <<>> THEN 0
  ELSE (IF Head(transactions).type = type THEN Head(transactions).quantity ELSE 0)
         + sumOfType(Tail(transactions), type)

signedSum(transactions) ==
  sumOfType(transactions, "purchase") - sumOfType(transactions, "release")

\* C1: the stock of every item of the store is the signed sum of the
\* quantities of its transactions (a purchase adds, a release subtracts, no
\* transaction gives 0), and calculateStock of the list view and currentStock
\* of the detail view agree on it.
C1_StockIsSignedSum ==
  \A k \in 1..Len(items) :
    /\ calculateStock(items[k]) = signedSum(items[k].transactions)
    /\ currentStock(items[k]) = calculateStock(items[k])

\* an item with a purchase and a release that leave stock
C1_PurchaseAndRelease ==
  \E k \in 1..Len(items) :
    /\ \E i \in 1..Len(items[k].transactions) : items[k].transactions[i].type = "purchase"
    /\ \E i \in 1..Len(items[k].transactions) :
         /\ items[k].transactions[i].type = "release"
         /\ items[k].transactions[i].quantity > 0
    /\ calculateStock(items[k]) > 0

\* what a submission asks for: the entered quantity, or the number of serials
\* of the range in the serial field of a product
requested(item, quantity, serialNumber) ==
  IF item.type = "product" /\ includes(serialNumber, "~")
  THEN Len(parseSerialRange(toUpperCase(serialNumber)).serials)
  ELSE parseIntOrZero(quantity)

\* C2: a release submitted for more than the stock of the item is rejected:
\* no step that changes the store, and with it a transaction list or a stock,
\* is such a submission.
C2_ReleaseOverStockRejected ==
  [][items' # items =>
       \A id \in itemIds, q \in StockQuantities, s \in StockSerials :
         requested(selectedItem(id), q, s) > signedSum(selectedItem(id).transactions)
           => ~handleAddTransactionForm(id, "release", q, s)]_vars

\* a release was refused for want of stock on an item that has some
C2_ReleaseRefused ==
  /\ alertMsg = "stock_short"
  /\ \E k \in 1..Len(items) : signedSum(items[k].transactions) > 0

(***************************************************************************)
(* The properties of the serial numbers.                                   *)
(***************************************************************************)
\* the position of the "~" of a string that has one
tildeAt(s) == CHOOSE i \in 1..Len(s) : s[i] = "~"

leftOf(s) == SubSeq(s, 1, tildeAt(s) - 1)

\* the end token: what follows the "~"
endOf(s) == SubSeq(s, tildeAt(s) + 1, Len(s))

\* the number of digits a string ends with
RECURSIVE trailingDigits(_)
trailingDigits(s) ==
  IF s = <<>> \/ ~IsDigit(s[Len(s)]) THEN 0
  ELSE 1 + trailingDigits(SubSeq(s, 1, Len(s) - 1))

\* the start token: the digits before the "~"
startOf(s) ==
  SubSeq(leftOf(s), Len(leftOf(s)) - trailingDigits(leftOf(s)) + 1, Len(leftOf(s)))

prefixOf(s) == SubSeq(leftOf(s), 1, Len(leftOf(s)) - trailingDigits(leftOf(s)))

\* s is <prefix><start>~<end>: one "~", digits after it, before it a prefix
\* and then digits
IsRangeExpression(s) ==
  /\ Cardinality({i \in 1..Len(s) : s[i] = "~"}) = 1
  /\ endOf(s) # <<>> /\ AllDigits(endOf(s))
  /\ startOf(s) # <<>>
  /\ prefixOf(s) # <<>>

\* the number of elements from start to end
rangeSize(s) == digitsValue(endOf(s)) - digitsValue(startOf(s)) + 1

\* the prefix followed by each number from start to end, padded with zeros to
\* the width of the start token
expansion(s) ==
  [n \in 1..rangeSize(s) |->
     prefixOf(s) \o padStart(toString(digitsValue(startOf(s)) + n - 1),
                             Len(startOf(s)), "0")]

\* C5: for a range expression <prefix><start>~<end> with start <= end and
\* fewer than 100 elements, parseSerialRange returns the end-start+1 serials
\* prefix + number, ascending, each number padded to the width of the start
\* token.
C5_RangeExpands ==
  (/\ arg.fn = "parseSerialRange" /\ result.returned
   /\ IsRangeExpression(arg.input)
   /\ rangeSize(arg.input) >= 1 /\ rangeSize(arg.input) < 100)
    => ~result.threw /\ result.serials = expansion(arg.input)

\* C6: parseSerialRange signals an error for a range expression whose
\* expansion has 100 elements or more, and none for one that has fewer.
C6_RangeLimit ==
  (/\ arg.fn = "parseSerialRange" /\ result.returned
   /\ IsRangeExpression(arg.input) /\ rangeSize(arg.input) >= 1)
    => (result.threw <=> rangeSize(arg.input) >= 100)

\* the serial numbers the transactions of the store carry, in upper case
serialsInUse ==
  UNION {{toUpperCase(serialNumberOf(items[k].transactions[i])) :
            i \in 1..Len(items[k].transactions)} : k \in 1..Len(items)} \ {<<>>}

\* the serial numbers a submission is for: those of the range, or the one in
\* the field
serialsOf(serialNumber) ==
  IF IsRangeExpression(serialNumber) /\ rangeSize(serialNumber) >= 1
  THEN {expansion(serialNumber)[n] : n \in 1..rangeSize(serialNumber)}
  ELSE {serialNumber}

\* C3: a submission for a product whose serial number, or one serial of whose
\* range, is already a serial number of the store (in upper case) is rejected
\* and changes nothing: of a range with one such serial no transaction is added.
C3_DuplicateSerialRejected ==
  [][\A id \in itemIds, q \in SerialQuantities, s \in SerialInputs :
       (/\ selectedItem(id).type = "product"
        /\ handleAddTransactionForm(id, "purchase", q, s)
        /\ serialsOf(toUpperCase(s)) \cap serialsInUse # {})
         => items' = items]_vars

\* the transactions of the store, each by the item and the row it is in
rows == {<<k, i>> : k \in 1..MaxItems, i \in 1..MaxTrans} \cap
          UNION {{<<k, i>> : i \in 1..Len(items[k].transactions)} : k \in 1..Len(items)}

serialAt(row) == toUpperCase(serialNumberOf(items[row[1]].transactions[row[2]]))

\* C4: no two transactions of the store, of one item or of two, carry the
\* same serial number, compared without regard to case, unless it is empty.
C4_SerialsUnique ==
  \A r1 \in rows, r2 \in rows :
    (r1 # r2 /\ serialAt(r1) # <<>>) => serialAt(r1) # serialAt(r2)

\* s is <letters><digits>
IsLettersDigits(s) ==
  \E n \in 1..(Len(s) - 1) : AllLetters(SubSeq(s, 1, n)) /\ AllDigits(SubSeq(s, n + 1, Len(s)))

lettersOf(s) == SubSeq(s, 1, Len(s) - trailingDigits(s))

suffixOf(s) == digitsValue(SubSeq(s, Len(s) - trailingDigits(s) + 1, Len(s)))

matching(usedSerials) == {k \in 1..Len(usedSerials) : IsLettersDigits(usedSerials[k])}

\* the greatest element of a set of numbers, 0 for the empty set
greatest(numbers) ==
  IF numbers = {} THEN 0 ELSE CHOOSE m \in numbers : \A x \in numbers : x <= m

\* what the next serial is to be for a list that is not empty
expectedNext(usedSerials) ==
  LET last == greatest(matching(usedSerials))
      prefix == IF last = 0 THEN <<"S", "N">> ELSE lettersOf(usedSerials[last])
      number == greatest({suffixOf(usedSerials[k]) : k \in matching(usedSerials)}) + 1
      digits == toString(number)
      zeros == IF Len(digits) >= 5 THEN 0 ELSE 5 - Len(digits)
  IN prefix \o [i \in 1..zeros |-> "0"] \o digits

\* C7: suggestNextSerial returns SN00001 for an empty list; for any other it
\* returns the letters of the last element of the form <letters><digits> (SN
\* if there is none), then the greatest number of such elements (0 if there
\* is none) plus one, padded with zeros to five digits or to its own length
\* if that is more.
C7_NextSerial ==
  (arg.fn = "suggestNextSerial" /\ result.returned)
    => result.serial = IF arg.usedSerials = <<>>
                       THEN <<"S", "N", "0", "0", "0", "0", "1">>
                       ELSE expectedNext(arg.usedSerials)

\* a suggestion for a list whose last matching element does not hold the
\* greatest number
C7_PrefixOfLast ==
  /\ arg.fn = "suggestNextSerial" /\ result.returned
  /\ Cardinality(matching(arg.usedSerials)) = 2
  /\ suffixOf(arg.usedSerials[1]) > suffixOf(arg.usedSerials[2])
  /\ lettersOf(arg.usedSerials[1]) # lettersOf(arg.usedSerials[2])

(***************************************************************************)
(* The properties of the item codes.                                       *)
(***************************************************************************)
\* an item of the store has this code, compared without regard to case
codeTaken(code) ==
  \E k \in 1..Len(items) : toUpperCase(items[k].code) = toUpperCase(code)

\* the transactions an item starts with for an initial quantity
seededWith(transactions, quantity) ==
  IF quantity = 0 THEN transactions = <<>>
  ELSE /\ Len(transactions) = 1
       /\ transactions[1].type = "purchase"
       /\ transactions[1].quantity = quantity

\* C8: the add-item form submitted with the code of an item of the store
\* (compared without regard to case) is rejected and leaves the store as it
\* is; submitted with a name and a code no item has, it adds one item, with
\* no transaction if the initial quantity is 0 and else with one purchase of
\* the initial quantity.
C8_AddItem ==
  [][\A c \in CodeInputs, n \in NameInputs, ty \in ItemTypes,
        q \in InitialQuantityInputs, r1 \in Rands, r2 \in Rands :
       handleSubmit(c, n, ty, q, r1, r2)
         => /\ codeTaken(toUpperCase(c)) => items' = items
            /\ (n # <<>> /\ c # <<>> /\ ~codeTaken(toUpperCase(c)))
                 => /\ Len(items') = Len(items) + 1
                    /\ Tail(items') = items
                    /\ Head(items').code = toUpperCase(c)
                    /\ seededWith(Head(items').transactions, digitsValue(q))]_vars

\* C9: no two items of the store have codes that are equal when compared
\* without regard to case.
C9_CodesUnique ==
  \A k \in 1..Len(items), l \in 1..Len(items) :
    k # l => toUpperCase(items[k].code) # toUpperCase(items[l].code)

(***************************************************************************)
(* The properties of the bridge to the remote store.                       *)
(***************************************************************************)
\* the response carries a JSON body with an items array, status 2xx
withItems(resp) ==
  resp.kind = "http" /\ resp.ok /\ resp.parses /\ "items" \in DOMAIN resp.value

\* the fetch was rejected, or the status is not 2xx, or the body is no JSON
failed(resp) == resp.kind = "neterr" \/ ~resp.ok \/ ~resp.parses

\* C10: when a fetch, of the initial load or of a refresh, succeeds with an
\* items array, the store becomes the remote items, the local cache is
\* overwritten with them, the data source is cloud and the status success;
\* when it fails, the store becomes the content of the local cache if there
\* is one and else stays, the cache is not modified, the data source is local
\* and the status offline.
C10_FetchOutcome ==
  [][\A k \in 1..Len(requests), batched \in BOOLEAN :
       fetchDone(k, batched)
         => /\ withItems(requests[k].response)
                 => /\ items' = requests[k].response.value.items
                    /\ localStorage'.present
                    /\ localStorage'.text = JSON_stringify(items')
                    /\ dataSource' = "cloud"
                    /\ syncStatus' = "success"
            /\ failed(requests[k].response)
                 => /\ items' = IF localStorage.present THEN JSON_parse(localStorage.text)
                                ELSE items
                    /\ localStorage' = localStorage
                    /\ dataSource' = "local"
                    /\ syncStatus' = "offline"]_vars

\* a fetch brought the items of the remote store into a store that held others
C10_RemoteAdopted ==
  /\ syncStatus = "success" /\ dataSource = "cloud"
  /\ \E k \in 1..Len(items) : items[k].code = <<"C", "9">>
  /\ localStorage = setItem(items)
  /\ requests = <<>>

(***************************************************************************)
(* The auto-save effect and its timeout.                                   *)
(***************************************************************************)
\* the POST requests among reqs
posts(reqs) == {k \in 1..Len(reqs) : reqs[k].method = "POST"}

\* the step sends a POST
pushSent == Cardinality(posts(requests')) > Cardinality(posts(requests))

\* C11: once the initial load has completed, a step that changes the store
\* writes the new store to the local cache at once and leaves a timeout pending
\* for it, sending nothing yet; when the timeout expires exactly one POST is
\* sent and it carries the store; a request is sent by nothing else; and a
\* handler that changes the store while the initial load is under way writes
\* no cache, starts no timeout and sends nothing.
C11_AutoSave ==
  [][/\ (items' # items /\ ~isInitialLoad) =>
          /\ localStorage' = [present |-> TRUE, text |-> JSON_stringify(items')]
          /\ timer' = [armed |-> TRUE, data |-> items']
          /\ ~pushSent
     /\ (timer.armed /\ ~timer'.armed) =>
          /\ Len(requests') = Len(requests) + 1
          /\ SubSeq(requests', 1, Len(requests)) = requests
          /\ requests'[Len(requests')].method = "POST"
          /\ requests'[Len(requests')].data = items
          /\ items' = items
     /\ pushSent => (timer.armed /\ ~timer'.armed)
     /\ (items' # items /\ isInitialLoad /\ isInitialLoad') =>
          (UNCHANGED <<localStorage, timer>> /\ ~pushSent)]_vars

\* the load is over, the user has added an item, the cache holds the store and
\* the POST that carries it is under way
C11_PushSent ==
  /\ ~isInitialLoad
  /\ items # <<>>
  /\ localStorage = [present |-> TRUE, text |-> JSON_stringify(items)]
  /\ ~timer.armed
  /\ \E k \in 1..Len(requests) : requests[k].method = "POST" /\ requests[k].data = items

\* C12: at most one push is pending and it is for the store as the last change
\* left it: a pending timeout always holds the current store; a change of the
\* store while a timeout is pending sends nothing and leaves one timeout
\* pending, for the new store; and the expiry of the timeout sends one POST,
\* with the store as it is then, and leaves none pending.
C12_Debounce ==
  /\ [](timer.armed => timer.data = items)
  /\ [][/\ (timer.armed /\ items' # items) =>
             (timer'.armed /\ timer'.data = items' /\ ~pushSent)
        /\ pushSent =>
             /\ Cardinality(posts(requests')) = Cardinality(posts(requests)) + 1
             /\ requests'[Len(requests')].data = items'
             /\ ~timer'.armed]_vars

\* after a load that found neither the remote store nor a cache, the user has
\* added an item and deleted it before any push was sent: one timeout is
\* pending, for the empty store
C12_Restarted ==
  /\ ~isInitialLoad
  /\ syncStatus = "offline"
  /\ requests = <<>>
  /\ kv = Null
  /\ timer = [armed |-> TRUE, data |-> <<>>]
  /\ localStorage = [present |-> TRUE, text |-> JSON_stringify(<<>>)]
  /\ items = <<>>

\* the step is the end of push k, and the push has failed: its fetch was
\* rejected or its response is not ok
pushFailed(k) ==
  /\ k \in 1..Len(requests)
  /\ requests[k].method = "POST"
  /\ requests[k].stage = "answered"
  /\ ~(requests[k].response.kind = "http" /\ requests[k].response.ok)
  /\ Len(requests') = Len(requests) - 1
  /\ \A j \in 1..Len(requests') : requests'[j] = requests[IF j < k THEN j ELSE j + 1]

\* C13: when a push fails, the status becomes error, the store is as it was,
\* the local cache holds the items that push carried, no timeout is started
\* or cleared and no request is sent.
C13_PushFailure ==
  [][\A k \in 1..MaxRequests :
       pushFailed(k) =>
         /\ syncStatus' = "error"
         /\ items' = items
         /\ localStorage' = [present |-> TRUE, text |-> JSON_stringify(requests[k].data)]
         /\ timer' = timer
         /\ ~pushSent]_vars

\* a push has failed after the store had changed again: the status is error
\* and the cache holds what the push carried, which the store no longer is
C13_FailedPushCached ==
  /\ syncStatus = "error"
  /\ requests = <<>>
  /\ ~timer.armed
  /\ localStorage.present
  /\ JSON_parse(localStorage.text) # items

(***************************************************************************)
(* The sync status.                                                        *)
(***************************************************************************)
\* loading -> success | offline; idle | success -> loading -> success | error
StatusMachine ==
  {<<"loading", "success">>, <<"loading", "offline">>, <<"idle", "loading">>,
   <<"success", "loading">>, <<"loading", "error">>}

\* C14: every change of the sync status is one of loading -> success,
\* loading -> offline, idle -> loading, success -> loading, loading -> error,
\* and a save starts (a POST is sent) only when the status is idle or success.
C14_StatusMachine ==
  [][/\ syncStatus' # syncStatus => <<syncStatus, syncStatus'>> \in StatusMachine
     /\ pushSent => syncStatus \in {"idle", "success"}]_vars

\* the step is the end of fetch k: fetchFromCloud has run to its return
fetchEnded(k) ==
  /\ k \in 1..Len(requests)
  /\ requests[k].method = "GET"
  /\ requests[k].stage = "answered"
  /\ Len(requests') = Len(requests) - 1
  /\ \A j \in 1..Len(requests') : requests'[j] = requests[IF j < k THEN j ELSE j + 1]

\* C15: when a fetch ends, whatever its response, the sync status is success
\* or offline.
C15_FetchLeavesLoading ==
  [][\A k \in 1..MaxRequests :
       fetchEnded(k) => syncStatus' \in {"success", "offline"}]_vars

(***************************************************************************)
(* The remote record.                                                      *)
(***************************************************************************)
\* C16: with one client and no failing push, whenever no request is under way
\* and no timeout is pending after the initial load, the items of the remote
\* record are the items of the store.
C16_LastWriteWins ==
  (~isInitialLoad /\ requests = <<>> /\ ~timer.armed)
    => storedOrDefault(kv).items = items

(***************************************************************************)
(* The quantity of a transaction.                                          *)
(***************************************************************************)
\* C20: every transaction in the store has a quantity of at least 1.
C20_QuantityPositive ==
  \A row \in rows : items[row[1]].transactions[row[2]].quantity >= 1

\* the step is the handler's answer to request k
answered(k) ==
  /\ k \in 1..Len(requests)
  /\ requests[k].stage = "sent"
  /\ Len(requests') = Len(requests)
  /\ requests'[k].stage = "answered"

\* the request is a POST whose JSON body has an items array
isWrite(req) ==
  req.method = "POST" /\ req.body.parses /\ "items" \in DOMAIN req.body.value

hasItemsArrayText(read) ==
  read.ok /\ read.kind = "object" /\ "items" \in DOMAIN read.value
    /\ read.kinds.items = "array"

\* what an import of a file that reads so does to the store
importOutcome(read) ==
  \A confirmed \in BOOLEAN :
    fileLoaded(read, confirmed) =>
      IF hasItemsArrayText(read) /\ confirmed
      THEN items' = read.value.items
      ELSE items' = items

\* C17: an import of a file makes the store the items of the file if the file
\* is JSON with an items array and the user confirms, and leaves the store as
\* it is if the file is no JSON, has no items array, or the user declines.
C17_Import ==
  [][(backup' = backup /\ authRole' = authRole) =>
       \A file \in ImportFiles : importOutcome(readFile(file))]_vars

\* the backup of another store was imported over a store that held a product
\* and an export of it: the store is the part of the file
C17_Restored ==
  /\ alertMsg = "restored"
  /\ backup.present
  /\ items = <<earlier(<<"C", "1">>)>>
  /\ parseText(backup.text).value.items # items

\* what an import of the text, confirmed, leaves in the store is its
CanRestore(text, its) ==
  hasItemsArrayText(parseText(text)) /\ parseText(text).value.items = its

\* C18: the backup document of every store is one whose import gives that
\* store back, items and transactions in their order; an export writes that
\* document, and a confirmed import of a document with an items array makes
\* the store those items.
C18_RoundTrip ==
  /\ [](CanRestore(backupText(items), items))
  /\ [][/\ backup' # backup => backup' = [present |-> TRUE, text |-> backupText(items)]
        /\ alertMsg' = "restored" =>
             \A file \in ImportFiles :
               (handleLocalImport(file, TRUE) /\ hasItemsArrayText(readFile(file)))
                 => items' = readFile(file).value.items]_vars

\* a store with a product, a name with a quote, a serial with a blank, a row
\* without serial and a negative quantity was exported, and the import of that
\* file has restored it
C18_OwnBackupRestored ==
  /\ alertMsg = "restored"
  /\ backup.present
  /\ backup.text = backupText(items)
  /\ Len(items) = 1
  /\ items[1].type = "product"
  /\ Len(items[1].transactions) >= 2
  /\ items[1].transactions[1].quantity < 0


(***************************************************************************)
(* Additions and deletions of transactions.                                *)
(***************************************************************************)
\* the item with its first n transactions
upTo(item, n) == [item EXCEPT !.transactions = SubSeq(@, 1, n)]

\* the transactions of the item after onDeleteTransaction(item.id, id)
afterDelete(item, id) == handleDeleteTransaction(<<item>>, item.id, id)[1].transactions

\* the step has added transactions to item k, as its last ones
grown(k) ==
  /\ Len(items') = Len(items)
  /\ Len(items'[k].transactions) > Len(items[k].transactions)
  /\ upTo(items'[k], Len(items[k].transactions)) = items[k]

\* C21: each transaction a step adds to an item, be it alone or one of a serial
\* range, is one whose deletion by its id, right after it was added, gives
\* back the transactions the item had before it was added, and with them the
\* stock.
C21_AddThenDelete ==
  [][\A k \in 1..Len(items) :
       grown(k) =>
         \A j \in (Len(items[k].transactions) + 1)..Len(items'[k].transactions) :
           /\ afterDelete(upTo(items'[k], j), items'[k].transactions[j].id)
                = upTo(items'[k], j - 1).transactions
           /\ reduceStock(afterDelete(upTo(items'[k], j), items'[k].transactions[j].id), 0)
                = calculateStock(upTo(items'[k], j - 1))]_vars

\* the ids of the transactions of an item, in their order
transactionIds(item) == [j \in 1..Len(item.transactions) |-> item.transactions[j].id]

\* C26: the transactions of an item have ids that differ from one another,
\* those that one submission of a serial range has added too.
C26_TransactionIdsDistinct ==
  \A k \in 1..Len(items) :
    \A i, j \in 1..Len(items[k].transactions) :
      i # j => transactionIds(items[k])[i] # transactionIds(items[k])[j]

(***************************************************************************)
(* Serial fields that are no range: calls of parseSerialRange on what the  *)
(* field can hold, and a session in which an administrator submits fields  *)
(* with a "~" for a product.                                               *)
(***************************************************************************)
\* fields with a "~" that name no range: start above end, no start, no end,
\* no prefix, blanks around
LiteralFields ==
  {<<"A", "5", "~", "1">>, <<"a", "~", "1">>, <<" ", "A", "5", " ", "~", " ", "1", " ">>,
   <<"~">>, <<"1", "~", "5">>}

RangeCalls == {call \in Calls : call.fn = "parseSerialRange"}

InitLiteral == \E call \in RangeCalls \cup {NoCall} : Started(NoEntry, Null, call)

LiteralNext ==
  \/ callParseSerialRange
  \/ arg = NoCall /\ handleLogin(ADMIN_PASSWORD)
  \/ \E r1 \in Draws(1), r2 \in Draws(1) :
       arg = NoCall /\ handleSubmit(<<"C", "1">>, <<"n">>, "product", <<"0">>, r1[1], r2[1])
  \/ \E id \in itemIds, q \in QuantityInputs, s \in LiteralFields :
       arg = NoCall /\ handleAddTransactionForm(id, "purchase", q, s)

SpecLiteral == InitLiteral /\ [][LiteralNext]_vars

\* the positions of the "~" of s
tildes(s) == {t \in 1..Len(s) : s[t] = "~"}

\* s without the blanks at its end
RECURSIVE trimEnd(_)
trimEnd(s) ==
  IF s # <<>> /\ IsSpace(s[Len(s)]) THEN trimEnd(SubSeq(s, 1, Len(s) - 1)) ELSE s

\* s is <prefix><digits>~<digits>: before a "~" the digits of the start, before
\* them a prefix, and after the "~" the digits of the end up to the end of s,
\* which a second prefix may precede; blanks may stand next to the "~"
hasPatternForm(s) ==
  \E t \in tildes(s) :
    /\ Len(trimEnd(SubSeq(s, 1, t - 1))) >= 2
    /\ IsDigit(trimEnd(SubSeq(s, 1, t - 1))[Len(trimEnd(SubSeq(s, 1, t - 1)))])
    /\ t < Len(s) /\ IsDigit(s[Len(s)])

\* s has one "~", a start before it that follows a prefix which ends in no
\* digit, after it the digits of the end, blanks apart, and start > end
startAboveEnd(s) ==
  /\ Cardinality(tildes(s)) = 1
  /\ trim(endOf(s)) # <<>> /\ AllDigits(trim(endOf(s)))
  /\ trailingDigits(trimEnd(leftOf(s))) >= 1
  /\ trailingDigits(trimEnd(leftOf(s))) < Len(trimEnd(leftOf(s)))
  /\ digitsValue(SubSeq(trimEnd(leftOf(s)),
                        Len(trimEnd(leftOf(s))) - trailingDigits(trimEnd(leftOf(s))) + 1,
                        Len(trimEnd(leftOf(s)))))
       > digitsValue(trim(endOf(s)))

\* parseSerialRange has returned the one-element list of the trimmed input
returnedLiteral == ~result.threw /\ result.serials = <<trim(arg.input)>>

\* the step has recorded one transaction for item k, of the given serial
recorded(k, serial) ==
  /\ Len(items') = Len(items)
  /\ Len(items'[k].transactions) = Len(items[k].transactions) + 1
  /\ upTo(items'[k], Len(items[k].transactions)) = items[k]
  /\ serialNumberOf(items'[k].transactions[Len(items'[k].transactions)]) = serial

\* C22: parseSerialRange returns the one-element list of the trimmed input,
\* and signals no error, for every input that has not the form
\* <prefix><digits>~<digits> and for every input with start > end; and
\* the form, submitted with such a field, records one transaction with that
\* trimmed field as its serial.
C22_Literal ==
  /\ []((/\ arg.fn = "parseSerialRange" /\ result.returned
         /\ ~hasPatternForm(arg.input) \/ startAboveEnd(arg.input))
          => returnedLiteral)
  /\ [][\A k \in 1..Len(items), q \in QuantityInputs, s \in LiteralFields :
          (/\ handleAddTransactionForm(items[k].id, "purchase", q, s)
           /\ items' # items
           /\ ~hasPatternForm(toUpperCase(s)) \/ startAboveEnd(toUpperCase(s)))
            => recorded(k, trim(toUpperCase(s)))]_vars

\* the form was submitted with the field A5~1 and the product holds one
\* transaction with that serial
C22_LiteralRecorded ==
  /\ alertMsg = "range_registered"
  /\ \E k \in 1..Len(items) :
       /\ Len(items[k].transactions) = 1
       /\ items[k].transactions[1].serialNumber = <<"A", "5", "~", "1">>

(***************************************************************************)
(* The operations on one item of a store of several: a session in which an *)
(* administrator adds items, edits them, and adds, edits and deletes their *)
(* transactions.                                                           *)
(***************************************************************************)
FrameNames == {<<"x">>}

FrameCodes == {<<"C", "3">>}

FrameSerials == {<<>>, <<"A", "1">>}

FrameEdits == {[quantity |-> <<"3">>, serialNumber |-> <<"b", "7">>]}

FrameNext ==
  \/ handleLogin(ADMIN_PASSWORD)
  \/ \E c \in StockCodes, q \in InitialQuantityInputs, r1 \in Draws(1), r2 \in Draws(1) :
       handleSubmit(c, <<"n">>, "product", q, r1[1], r2[1])
  \/ \E id \in itemIds, n \in FrameNames, c \in FrameCodes :
       handleActionConfirmItem(id, n, c, ADMIN_CONFIRM_PASSWORD)
  \/ \E id \in itemIds, s \in FrameSerials :
       handleAddTransactionForm(id, "purchase", <<"1">>, s)
  \/ \E id \in itemIds, k \in 1..MaxTrans, e \in FrameEdits :
       handleActionConfirmTransSave(id, k, e, ADMIN_CONFIRM_PASSWORD)
  \/ \E id \in itemIds, k \in 1..MaxTrans :
       handleActionConfirmTransDelete(id, k, ADMIN_CONFIRM_PASSWORD)

SpecFrame == Init /\ [][FrameNext]_vars

\* the ids of the items, in their order
idsOfItems(its) == [k \in 1..Len(its) |-> its[k].id]

\* the step keeps the number, the order and the ids of the items and changes
\* no item but those of the given id
onlyItem(id) ==
  /\ idsOfItems(items') = idsOfItems(items)
  /\ \A k \in 1..Len(items) : items[k].id # id => items'[k] = items[k]

\* the step keeps the transactions of every item in their places, with their ids
sameTransactionIds ==
  \A k \in 1..Len(items) : transactionIds(items'[k]) = transactionIds(items[k])

\* the transactions every item had are the first of those it has
appended ==
  \A k \in 1..Len(items) :
    /\ Len(items'[k].transactions) >= Len(items[k].transactions)
    /\ upTo(items'[k], Len(items[k].transactions)) = items[k]

\* C23: an edit of an item, an addition, an edit and a deletion of a
\* transaction, made for the item of id X, keep the number and the order of
\* the items and leave the items of another id as they are; the addition
\* appends to the transactions of X, the edit of a transaction keeps its place
\* and its id, and no edit changes the id of an item or of a transaction.
C23_Frame ==
  [][\A id \in itemIds :
       /\ \A n \in FrameNames, c \in FrameCodes :
            handleActionConfirmItem(id, n, c, ADMIN_CONFIRM_PASSWORD)
              => onlyItem(id) /\ sameTransactionIds
       /\ \A s \in FrameSerials :
            handleAddTransactionForm(id, "purchase", <<"1">>, s)
              => onlyItem(id) /\ appended
       /\ \A k \in 1..MaxTrans, e \in FrameEdits :
            handleActionConfirmTransSave(id, k, e, ADMIN_CONFIRM_PASSWORD)
              => onlyItem(id) /\ sameTransactionIds
       /\ \A k \in 1..MaxTrans :
            handleActionConfirmTransDelete(id, k, ADMIN_CONFIRM_PASSWORD)
              => onlyItem(id)]_vars

\* a store of two items: the first was edited, got a transaction more and had
\* one edited; the second is as it was added
C23_OneOfTwoChanged ==
  /\ Len(items) = 2
  /\ items[1].name = <<"X">>
  /\ Len(items[1].transactions) = 2
  /\ items[1].transactions[1].quantity = 3
  /\ items[2].name = <<"N">>
  /\ Len(items[2].transactions) = 1

(***************************************************************************)
(* The two roles: sessions of an administrator and of a restricted user,   *)
(* one after the other, in which they add a product and transactions and   *)
(* answer the password prompts of the edits and deletions with each of the *)
(* four passwords.                                                         *)
(***************************************************************************)
LoginPasswords == {ADMIN_PASSWORD, PRODUCT_ONLY_PASSWORD}

RolesNext ==
  \/ \E pw \in LoginPasswords : handleLogin(pw)
  \/ handleLogout
  \/ \E r1 \in Draws(1), r2 \in Draws(1) :
       handleSubmit(<<"C", "1">>, <<"n">>, "product", <<"2">>, r1[1], r2[1])
  \/ \E id \in itemIds, pw \in PasswordInputs : handleDeleteItemConfirm(id, pw)
  \/ \E id \in itemIds, pw \in PasswordInputs :
       handleActionConfirmItem(id, <<"x">>, <<"C", "3">>, pw)
  \/ \E id \in itemIds : handleAddTransactionForm(id, "purchase", <<"1">>, <<>>)
  \/ \E id \in itemIds, k \in 1..MaxTrans, pw \in PasswordInputs :
       handleActionConfirmTransSave(id, k, [quantity |-> <<"3">>], pw)
  \/ \E id \in itemIds, k \in 1..MaxTrans, pw \in PasswordInputs :
       handleActionConfirmTransDelete(id, k, pw)

SpecRoles == Init /\ [][RolesNext]_vars

\* the step leaves the items in their places and takes a transaction from one
transactionLost ==
  /\ idsOfItems(items') = idsOfItems(items)
  /\ \E k \in 1..Len(items) :
       \E j \in 1..Len(items[k].transactions) :
         \A i \in 1..Len(items'[k].transactions) :
           items'[k].transactions[i].id # items[k].transactions[j].id

\* C24: a transaction leaves the store by a deletion of a transaction only
\* in the session of an administrator: no step of a restricted user's session
\* takes a transaction from an item.
C24_DeleteOnlyAdmin ==
  [][transactionLost => authRole = "admin" /\ authRole' = "admin"]_vars

\* the restricted user has answered the prompt of an edit with the password of
\* the role, and the edited transaction is in the store next to another
C24_RestrictedEdited ==
  /\ authRole = "product_only"
  /\ alertMsg = "none"
  /\ \E k \in 1..Len(items) :
       /\ Len(items[k].transactions) = 2
       /\ items[k].transactions[2].quantity = 3

\* C25: the deletion of an item, the edit of an item, the edit of a
\* transaction and the deletion of a transaction change the store only when
\* the prompt was answered with the confirmation password of the role ('5200'
\* for the administrator, '3281' for the restricted user), which is none of
\* the login passwords: no step that changes the store is one of them
\* answered with another password.
C25_ConfirmationSecret ==
  [][items' # items =>
       \A id \in itemIds, pw \in PasswordInputs \ {requiredPass} :
         /\ ~handleDeleteItemConfirm(id, pw)
         /\ ~handleActionConfirmItem(id, <<"x">>, <<"C", "3">>, pw)
         /\ \A k \in 1..MaxTrans :
              /\ ~handleActionConfirmTransSave(id, k, [quantity |-> <<"3">>], pw)
              /\ ~handleActionConfirmTransDelete(id, k, pw)]_vars

\* C27: the stock of every item of the store is 0 or more.
C27_StockNonNegative ==
  \A k \in 1..Len(items) : calculateStock(items[k]) >= 0

(***************************************************************************)
(* The local cache and the pushes.                                         *)
(***************************************************************************)
\* C28: once the initial load is over, the local cache holds the store as it
\* is, between any two steps: no response to a push brings an earlier store
\* back into it.
C28_CacheIsStore ==
  ~isInitialLoad => localStorage.text = JSON_stringify(items)

\* the elements of a list
elements(list) == {list[k] : k \in 1..Len(list)}

\* the items the requests to save carry
carried(reqs) == UNION {elements(reqs[k].data) : k \in posts(reqs)}

\* the items of the record of the remote store
remote(record) == IF record = Null THEN {} ELSE elements(record.items)

\* C29: an item the user has added, for which a push is pending, is not lost
\* before a push carries it: after every step it is still in the store, or a
\* request to save carries it, or the remote store holds it. (What a step
\* takes out of the store, the pending push and the requests at once can
\* never be pushed.)
C29_MutationPushed ==
  [][(~isInitialLoad /\ timer.armed) =>
       \A item \in elements(timer.data) :
         item.id[2] > 0 =>
           \/ item \in elements(items')
           \/ item \in carried(requests')
           \/ item \in remote(kv')]_vars

(***************************************************************************)
(* The suggested serial: calls of suggestNextSerial on lists of used       *)
(* serials, and a session in which an administrator adds serials to a      *)
(* product, the form suggesting the next one after each.                   *)
(***************************************************************************)
\* serials the form may hold: none, one with five digits as the suggestions
\* have them, short ones, a range
SuggestFields ==
  {<<>>, <<"S", "N", "0", "0", "0", "0", "2">>, <<"a", "9">>, <<" ", "A", "1">>,
   <<"A", "1", "~", "2">>}

SuggestCalls == {call \in Calls : call.fn = "suggestNextSerial"}

InitSuggest == \E call \in SuggestCalls \cup {NoCall} : Started(NoEntry, Null, call)

SuggestNext ==
  \/ callSuggestNextSerial
  \/ arg = NoCall /\ handleLogin(ADMIN_PASSWORD)
  \/ \E r1 \in Draws(1), r2 \in Draws(1) :
       arg = NoCall /\ handleSubmit(<<"C", "1">>, <<"n">>, "product", <<"0">>, r1[1], r2[1])
  \/ \E id \in itemIds, s \in SuggestFields :
       arg = NoCall /\ handleAddTransactionForm(id, "purchase", <<"1">>, s)

SpecSuggest == InitSuggest /\ [][SuggestNext]_vars

\* setSerialNumber(suggestNextSerial([...allUsedSerials, ...targetSerials])):
\* what the form holds after the submission sub was accepted
prefilled(sub) == suggestNextSerial(allUsedSerials \o sub.targetSerials)

\* C30: the serial suggestNextSerial returns for a list of used serials is
\* none of the list; and the serial the form holds after an accepted
\* submission is none of the serials of the store, those just added included.
C30_SuggestionUnused ==
  /\ []((arg.fn = "suggestNextSerial" /\ result.returned)
          => ~listIncludes(arg.usedSerials, result.serial))
  /\ [][\A id \in itemIds, s \in SuggestFields :
          (handleAddTransactionForm(id, "purchase", <<"1">>, s) /\ items' # items)
            => ~listIncludes(usedSerialsOf(items'),
                             prefilled(submission(selectedItem(id), "purchase", <<"1">>,
                                                  toUpperCase(s))))]_vars

\* the product holds SN00002 and A9, added one after the other: the form has
\* suggested A00010 after the second
C30_SuggestedAfterAdd ==
  /\ alertMsg = "none"
  /\ allUsedSerials = <<<<"S", "N", "0", "0", "0", "0", "2">>, <<"A", "9">>>>
  /\ suggestNextSerial(allUsedSerials) = <<"A", "0", "0", "0", "1", "0">>

====
